---- MODULE Spec2Model ----
(***************************************************************************)
(* Model of the fireworks core (js/fireworks-core.js): the colour model,   *)
(* the Star / Spark / BurstFlash pools, the burst geometry, Shell.burst,   *)
(* the secondary effects and the integrator updateFireworks.               *)
(*                                                                         *)
(* Numbers.  JavaScript doubles are modelled in fixed point:               *)
(*   angles, ring sizes and particle counts   1/10000   (AS)               *)
(*   positions, velocities, speed factors     1/1000    (PS)               *)
(*   life, frame time                         milliseconds (integers)      *)
(*   sparkTimer                               1/1000 ms                    *)
(* Math.random() is a stream of quarters 0/4 .. 3/4: the k-th draw of an   *)
(* operation seeded with s is (s + k) mod 4; an operation is seeded with   *)
(* the number of operations of its kind before it.                         *)
(***************************************************************************)
EXTENDS Integers, Sequences, FiniteSets, TLC

(* ---------------------------------------------------------------------- *)
(* Bounds of the model                                                      *)
(* ---------------------------------------------------------------------- *)
MaxBursts == 1
MaxFrames == 2
MaxReturns == 1
MaxAdds == 2
LifeRatioSteps == 10

\* calls of updateFireworks followed after the launch of the shells
MaxTicks == 12

(* ---------------------------------------------------------------------- *)
(* Constants of the program                                                 *)
(* ---------------------------------------------------------------------- *)
\* fixed-point scales and the number of levels of Math.random()
AS == 10 * 1000
PS == 10 * 100
RandLevels == 2 + 2

GRAVITY == 900
PI_2 == 62832
PI_HALF == 15708
PI_FP == 31416
AS2_OVER_PI == 31830989

INVISIBLE == "_INVISIBLE_"
COLOR_CODES == <<"Red", "Green", "Blue", "Purple", "Gold", "White">>
COLOR_CODES_W_INVIS == COLOR_CODES \o <<INVISIBLE>>
ColorKeys == {COLOR_CODES_W_INVIS[i] : i \in 1..Len(COLOR_CODES_W_INVIS)}
\* the hex colour of the README's customShell: none of the palette codes
UnknownColor == "#ff6b6b"

COLOR_TUPLES ==
  [c \in {COLOR_CODES[i] : i \in 1..Len(COLOR_CODES)} |->
     CASE c = "Red"    -> [r |-> 255, g |-> 0,   b |-> 67]
       [] c = "Green"  -> [r |-> 20,  g |-> 252, b |-> 86]
       [] c = "Blue"   -> [r |-> 30,  g |-> 127, b |-> 255]
       [] c = "Purple" -> [r |-> 230, g |-> 10,  b |-> 255]
       [] c = "Gold"   -> [r |-> 255, g |-> 191, b |-> 54]
       [] c = "White"  -> [r |-> 255, g |-> 255, b |-> 255]]

Star_airDrag == 980
Star_airDragHeavy == 992
Spark_airDrag == 900

(* ---------------------------------------------------------------------- *)
(* Arithmetic helpers                                                       *)
(* ---------------------------------------------------------------------- *)
Min(a, b) == IF a < b THEN a ELSE b
Max(a, b) == IF a > b THEN a ELSE b

\* Math.round of the rational n/d (d > 0): half rounds towards +infinity
RoundDiv(n, d) == (2 * n + d) \div (2 * d)

\* ceiling of n/d for d > 0
CeilDiv(n, d) == -((-n) \div d)

RECURSIVE SqrtSearch(_, _, _)
SqrtSearch(n, lo, hi) ==
  IF lo >= hi THEN lo
  ELSE LET mid == (lo + hi + 1) \div 2
       IN IF mid * mid <= n THEN SqrtSearch(n, mid, hi)
                            ELSE SqrtSearch(n, lo, mid - 1)

\* floor(Math.sqrt(n)) for 0 <= n < 2^31
ISqrt(n) == SqrtSearch(n, 0, 46340)

\* Math.cos(x) for 0 <= x <= pi/2, x and the result in 1/AS (Taylor, 5 terms)
Cos(x) ==
  LET x2 == (x * x) \div AS
      x4 == (x2 * x2) \div AS
      x6 == (x4 * x2) \div AS
      x8 == ((x6 \div 100) * x2) \div 100
  IN AS - x2 \div 2 + x4 \div 24 - x6 \div 720 + x8 \div 40320

\* sin and cos of an angle (1/AS rad), quantised to eighths of a turn, in 1/PS
SinT == <<0, 707, 1000, 707, 0, -707, -1000, -707>>
CosT == <<1000, 707, 0, -707, -1000, -707, 0, 707>>
Octant(angle) == (((angle % PI_2) * 8) \div PI_2) + 1
Sin(angle) == SinT[Octant(angle)]
CosA(angle) == CosT[Octant(angle)]

\* the k-th Math.random() of an operation seeded with s, as a number of quarters
Rnd(s, k) == (s + k) % RandLevels

\* array.splice(i, 1), i counted from 1
Splice(s, i) == SubSeq(s, 1, i - 1) \o SubSeq(s, i + 1, Len(s))
Range(s) == {s[i] : i \in 1..Len(s)}

RECURSIVE SumSeq(_)
SumSeq(s) == IF s = <<>> THEN 0 ELSE Head(s) + SumSeq(Tail(s))

(* ---------------------------------------------------------------------- *)
(* Colour model.  A colour string is a record: kind "hex" for a string      *)
(* that starts with '#' (the palette codes are such strings, named here by  *)
(* their palette names), kind "rgb" for the text `rgb(r, g, b)`, kind       *)
(* "text" for any other string and kind "null" for null / undefined.        *)
(* Hue (degrees), saturation and lightness are in 1/AS.                     *)
(* ---------------------------------------------------------------------- *)
ColorString(key) ==
  [kind |-> IF key = INVISIBLE THEN "text" ELSE "hex", name |-> key,
   r |-> 0, g |-> 0, b |-> 0]
RgbString(r, g, b) == [kind |-> "rgb", name |-> "", r |-> r, g |-> g, b |-> b]
NoColor == [kind |-> "null", name |-> "", r |-> 0, g |-> 0, b |-> 0]

\* the % of JavaScript: the result has the sign of the dividend
JsMod(a, m) == IF a >= 0 THEN a % m ELSE 0 - ((0 - a) % m)

\* (Math.random() - 0.5) * amount for the draw q
Jitter(q, amount) == ((2 * q - RandLevels) * amount) \div (2 * RandLevels)

\* the hue in sixths of a turn (1/AS): switch (max) { case r: ... case g: ... case b: ... }
HueSixths(r, g, b, max, d) ==
  IF max = r THEN ((g - b) * AS) \div d + (IF g < b THEN 6 * AS ELSE 0)
  ELSE IF max = g THEN ((b - r) * AS) \div d + 2 * AS
  ELSE ((r - g) * AS) \div d + 4 * AS

HslOf(r, g, b, max, min) ==
  IF max = min THEN [h |-> 0, s |-> 0, l |-> ((max + min) * AS) \div 510]
  ELSE [h |-> (HueSixths(r, g, b, max, max - min) * 360) \div 6,
        s |-> IF max + min > 255 THEN ((max - min) * AS) \div (510 - max - min)
                                 ELSE ((max - min) * AS) \div (max + min),
        l |-> ((max + min) * AS) \div 510]

\* rgbToHsl(r, g, b) for r, g, b in 0..255
rgbToHsl(r, g, b) == HslOf(r, g, b, Max(r, Max(g, b)), Min(r, Min(g, b)))

Wrapped(t) == IF t < 0 THEN t + AS ELSE IF t > AS THEN t - AS ELSE t

HueRamp(p, q, t) ==
  IF 6 * t < AS THEN p + ((q - p) * 6 * t) \div AS
  ELSE IF 2 * t < AS THEN q
  ELSE IF 3 * t < 2 * AS THEN p + ((q - p) * (4 * AS - 6 * t)) \div AS
  ELSE p

\* the hue2rgb of hslToRgb
hue2rgb(p, q, t) == HueRamp(p, q, Wrapped(t))

HslQ(s, l) == IF 2 * l < AS THEN (l * (AS + s)) \div AS ELSE l + s - (l * s) \div AS

RgbOfHue(p, q, h) ==
  [r |-> hue2rgb(p, q, h + AS \div 3) * 255,
   g |-> hue2rgb(p, q, h) * 255,
   b |-> hue2rgb(p, q, h - AS \div 3) * 255]

\* a conversion that ignores hue and saturation
hslToGrey(h, s, l) == [r |-> l * 255, g |-> l * 255, b |-> l * 255]

\* hslToRgb(h, s, l), h in turns; the components are in 1/AS
hslToRgb(h, s, l) ==
  IF s = 0 THEN [r |-> l * 255, g |-> l * 255, b |-> l * 255]
  ELSE RgbOfHue(2 * l - HslQ(s, l), HslQ(s, l), h)

Rounded(rgb) == RgbString(RoundDiv(rgb.r, AS), RoundDiv(rgb.g, AS), RoundDiv(rgb.b, AS))

Varied(hsl, variation, seed) ==
  Rounded(hslToRgb(
    JsMod(hsl.h + Jitter(Rnd(seed, 0), variation * 600), 360 * AS) \div 360,
    Max(0, Min(AS, hsl.s + Jitter(Rnd(seed, 1), variation * 3))),
    Max(AS \div 10, Min((9 * AS) \div 10, hsl.l + Jitter(Rnd(seed, 2), variation * 2)))))

\* generateColorVariation(baseColor, variation), variation in 1/1000, with the
\* three Math.random() of the call drawn from the stream seeded seed
generateColorVariation(baseColor, variation, seed) ==
  IF baseColor \notin DOMAIN COLOR_TUPLES THEN ColorString(baseColor)
  ELSE Varied(rgbToHsl(COLOR_TUPLES[baseColor].r, COLOR_TUPLES[baseColor].g,
                       COLOR_TUPLES[baseColor].b),
              variation, seed)

\* parseRgbColor(color): ok is FALSE for a null / undefined result
parseRgbColor(color) ==
  IF color.kind = "hex" /\ color.name \in DOMAIN COLOR_TUPLES
    THEN [ok |-> TRUE, r |-> COLOR_TUPLES[color.name].r,
          g |-> COLOR_TUPLES[color.name].g, b |-> COLOR_TUPLES[color.name].b]
  ELSE IF color.kind = "rgb"
    THEN [ok |-> TRUE, r |-> color.r, g |-> color.g, b |-> color.b]
  ELSE [ok |-> FALSE, r |-> 0, g |-> 0, b |-> 0]

Blend(rgb1, rgb2, tn, td) ==
  RgbString(RoundDiv(rgb1.r * td + (rgb2.r - rgb1.r) * tn, td),
            RoundDiv(rgb1.g * td + (rgb2.g - rgb1.g) * tn, td),
            RoundDiv(rgb1.b * td + (rgb2.b - rgb1.b) * tn, td))

\* interpolateColors(color1, color2, t) for the rational t = tn / td
interpolateColors(color1, color2, tn, td) ==
  IF ~parseRgbColor(color1).ok \/ ~parseRgbColor(color2).ok THEN color1
  ELSE Blend(parseRgbColor(color1), parseRgbColor(color2), tn, td)

\* interpolateColorEvolution(colorEvolution, lifeRatio) for the rational
\* lifeRatio = n / d; an absent colour of the schedule is NoColor
interpolateColorEvolution(colorEvolution, n, d) ==
  IF colorEvolution.startColor.kind # "null" /\ colorEvolution.midColor.kind # "null"
     /\ colorEvolution.endColor.kind # "null"
    THEN IF 5 * n > 3 * d
           \* t = (lifeRatio - 0.6) / 0.4
           THEN interpolateColors(colorEvolution.startColor, colorEvolution.midColor,
                                  5 * n - 3 * d, 2 * d)
           \* t = lifeRatio / 0.6
           ELSE interpolateColors(colorEvolution.midColor, colorEvolution.endColor,
                                  5 * n, 3 * d)
  ELSE IF colorEvolution.startColor.kind # "null" /\ colorEvolution.endColor.kind # "null"
    THEN interpolateColors(colorEvolution.startColor, colorEvolution.endColor, d - n, d)
  ELSE NoColor

(* ---------------------------------------------------------------------- *)
(* JavaScript values                                                        *)
(* ---------------------------------------------------------------------- *)
\* a numeric field that holds undefined
NoNumber == 0 - 1
Truthy(v) == v \notin {"undefined", "null"}

(* ---------------------------------------------------------------------- *)
(* Random colours: every Math.random() can give every index of the palette, *)
(* so a function that draws is the set of the values it can return          *)
(* ---------------------------------------------------------------------- *)
\* randomColorSimple(): COLOR_CODES[Math.random() * COLOR_CODES.length | 0]
randomColorSimple == Range(COLOR_CODES)

\* the options of randomColor; "undefined" is an absent notColor
ColorOptions(limitWhite, notSame, notColor) ==
  [limitWhite |-> limitWhite, notSame |-> notSame, notColor |-> notColor]

\* if (limitWhite && color === COLOR.White && Math.random() < 0.6)
\*   color = randomColorSimple()
WhiteLimited(options, color) ==
  IF options.limitWhite /\ color = "White" THEN {color} \cup randomColorSimple
  ELSE {color}

\* while (color === other) color = randomColorSimple(): the colours the loop
\* can end with
Rerolled(color, other) ==
  IF color = other THEN randomColorSimple \ {other} ELSE {color}

\* if (notSame) while (color === lastColor) ...
NotSame(options, color, previous) ==
  IF options.notSame THEN Rerolled(color, previous) ELSE {color}

\* if (notColor) while (color === notColor) ...
NotColor(options, color) ==
  IF Truthy(options.notColor) THEN Rerolled(color, options.notColor) ELSE {color}

\* randomColor(options) when lastColor is previous: the colours it can return,
\* each of which it leaves in lastColor
randomColor(options, previous) ==
  UNION { NotColor(options, c2) :
            c2 \in UNION { NotSame(options, c1, previous) :
                             c1 \in UNION { WhiteLimited(options, c0) :
                                              c0 \in randomColorSimple } } }

(* ---------------------------------------------------------------------- *)
(* State                                                                    *)
(* ---------------------------------------------------------------------- *)
VARIABLES
  star,         \* every object made by Star._new, by identity 1..Len(star)
  starActive,   \* Star.active: colour key -> array of identities
  starPool,     \* Star._pool
  spark,        \* every object made by Spark._new
  sparkActive,  \* Spark.active
  sparkPool,    \* Spark._pool
  flash,        \* every object made by BurstFlash._new
  flashActive,  \* BurstFlash.active
  flashPool,    \* BurstFlash._pool
  currentFrame, \* the integrator's frame counter
  bursts,       \* number of Shell.burst calls so far
  returns,      \* number of returnInstance calls made by a caller so far
  adds,         \* number of add calls made by a caller so far
  lastColor,    \* `let lastColor`: the colour randomColor returned last
  call,         \* a call of a function of the colour model and its result
  page,         \* app.js: the global app, its flags and timers, and the apps made
  last          \* what the last operation did (history, not program state)

vars == <<star, starActive, starPool, spark, sparkActive, sparkPool,
          flash, flashActive, flashPool, currentFrame, bursts, returns, adds,
          lastColor, call, page, last>>

\* a collection that has an array for the hex colour as well
createOpenCollection == [c \in ColorKeys \cup {UnknownColor} |-> <<>>]

\* createParticleCollection(): one empty array per colour key
createParticleCollection == [c \in ColorKeys |-> <<>>]

\* Star._new() / Spark._new() / BurstFlash._new(): {} - every field undefined.
\* The fields only the renderer reads (spinAngle, spinSpeed, colorVariation,
\* flameGradient, colorEvolution) are not kept in the state.
Star_new ==
  [visible |-> FALSE, heavy |-> FALSE, x |-> 0, y |-> 0, prevX |-> 0, prevY |-> 0,
   color |-> "undefined", baseColor |-> "undefined",
   speedX |-> 0, speedY |-> 0, life |-> 0, fullLife |-> 0,
   spinRadius |-> 0, sparkFreq |-> 0, sparkSpeed |-> 0, sparkTimer |-> 0,
   sparkColor |-> "undefined", sparkLife |-> 0, sparkLifeVariation |-> 0,
   strobe |-> FALSE, strobeFreq |-> NoNumber,
   onDeath |-> "undefined", secondColor |-> "undefined",
   transitionTime |-> NoNumber, colorChanged |-> FALSE,
   updateFrame |-> NoNumber,
   depthLayer |-> "undefined", intensityMultiplier |-> NoNumber,
   \* history: incarnation number, onDeath calls and effect of this incarnation
   gen |-> 0, deathCalls |-> 0, effect |-> "undefined"]

Spark_new ==
  [x |-> 0, y |-> 0, prevX |-> 0, prevY |-> 0,
   color |-> "undefined", baseColor |-> "undefined",
   speedX |-> 0, speedY |-> 0, life |-> 0, fullLife |-> 0,
   depthLayer |-> "undefined", intensityMultiplier |-> NoNumber,
   gen |-> 0]

BurstFlash_new == [x |-> 0, y |-> 0, radius |-> 0]

\* The heap an operation works on: the program state plus the operation's
\* random stream (seed, draws), its exception flag and its history.
World(seed, op) ==
  [star |-> star, starActive |-> starActive, starPool |-> starPool,
   spark |-> spark, sparkActive |-> sparkActive, sparkPool |-> sparkPool,
   flash |-> flash, flashActive |-> flashActive, flashPool |-> flashPool,
   currentFrame |-> currentFrame,
   seed |-> seed, draws |-> 0, threw |-> FALSE, ret |-> 0,
   log |-> [op |-> op, frameTime |-> 0, speed |-> 0,
            starCount |-> 0, color |-> "undefined",
            newStars |-> <<>>, newSparks |-> <<>>, newFlashes |-> 0,
            deaths |-> <<>>, processed |-> <<>>, threw |-> FALSE]]

\* W after one Math.random(); Random(W) is the value drawn by the next one
Random(W) == Rnd(W.seed, W.draws)
Drawn(W) == [W EXCEPT !.draws = @ + 1]

(* ---------------------------------------------------------------------- *)
(* Pools                                                                    *)
(* ---------------------------------------------------------------------- *)
\* `this._pool.pop() || this._new()`: the identity taken, and the heap after it
PoolTop(pool, all) == IF Len(pool) > 0 THEN pool[Len(pool)] ELSE Len(all) + 1
PoolRest(pool) == IF Len(pool) > 0 THEN SubSeq(pool, 1, Len(pool) - 1) ELSE pool

\* Star.add(x, y, color, angle, speed, life, speedOffX, speedOffY, sourceShell);
\* the new star's identity is left in W.ret.  `this.active[color].push` throws
\* a TypeError when color is no key of the collection.
Star_add(W, x, y, color, angle, speed, life, speedOffX, speedOffY, sourceShell) ==
  LET id    == PoolTop(W.starPool, W.star)
      old   == IF Len(W.starPool) > 0 THEN W.star[id] ELSE Star_new
      inst  == [old EXCEPT
                  !.visible = TRUE, !.heavy = FALSE,
                  !.x = x, !.y = y, !.prevX = x, !.prevY = y,
                  !.color = color,
                  !.speedX = (Sin(angle) * speed) \div PS + speedOffX,
                  !.speedY = (CosA(angle) * speed) \div PS + speedOffY,
                  !.life = life, !.fullLife = life,
                  !.spinRadius = 0, !.sparkFreq = 0, !.sparkSpeed = PS,
                  !.sparkTimer = 0, !.sparkColor = color, !.sparkLife = 750,
                  !.sparkLifeVariation = 250, !.strobe = FALSE,
                  !.baseColor = color,
                  !.depthLayer = IF sourceShell.given THEN sourceShell.depthLayer ELSE @,
                  !.intensityMultiplier =
                     IF sourceShell.given THEN sourceShell.intensityMultiplier ELSE @,
                  !.gen = @ + 1, !.deathCalls = 0, !.effect = "undefined"]
      stars == IF Len(W.starPool) > 0 THEN [W.star EXCEPT ![id] = inst]
                                      ELSE Append(W.star, inst)
      \* spinAngle = Math.random() * PI_2
      W1    == [Drawn(W) EXCEPT !.star = stars, !.starPool = PoolRest(@)]
  IN IF color \notin DOMAIN W.starActive
       THEN [W1 EXCEPT !.threw = TRUE]
       ELSE [W1 EXCEPT !.starActive[color] = Append(@, id),
                       !.ret = id,
                       !.log.newStars = Append(@, id)]

\* a cleanup that leaves the handler on the instance
Star_cleanupKeepingHandler(W, id) ==
  [W EXCEPT !.star[id].secondColor = "null",
            !.star[id].transitionTime = 0,
            !.star[id].colorChanged = FALSE,
            !.starPool = Append(@, id)]

\* Star.returnInstance(instance) after the onDeath handler has run (the handler
\* is run by Star_returnInstance below, once the effects are defined)
Star_cleanup(W, id) ==
  [W EXCEPT !.star[id].onDeath = "null",
            !.star[id].secondColor = "null",
            !.star[id].transitionTime = 0,
            !.star[id].colorChanged = FALSE,
            !.starPool = Append(@, id)]

\* Spark.add(x, y, color, angle, speed, life, sourceShell)
Spark_add(W, x, y, color, angle, speed, life, sourceShell) ==
  LET id     == PoolTop(W.sparkPool, W.spark)
      old    == IF Len(W.sparkPool) > 0 THEN W.spark[id] ELSE Spark_new
      inst   == [old EXCEPT
                   !.x = x, !.y = y, !.prevX = x, !.prevY = y,
                   !.color = color,
                   !.speedX = (Sin(angle) * speed) \div PS,
                   !.speedY = (CosA(angle) * speed) \div PS,
                   !.life = life, !.fullLife = life,
                   !.baseColor = color,
                   !.depthLayer = IF sourceShell.given THEN sourceShell.depthLayer ELSE @,
                   !.intensityMultiplier =
                      IF sourceShell.given THEN sourceShell.intensityMultiplier ELSE @,
                   !.gen = @ + 1]
      sparks == IF Len(W.sparkPool) > 0 THEN [W.spark EXCEPT ![id] = inst]
                                        ELSE Append(W.spark, inst)
      W1     == [W EXCEPT !.spark = sparks, !.sparkPool = PoolRest(@)]
  IN IF color \notin DOMAIN W.sparkActive
       THEN [W1 EXCEPT !.threw = TRUE]
       ELSE [W1 EXCEPT !.sparkActive[color] = Append(@, id),
                       !.ret = id,
                       !.log.newSparks = Append(@, id)]

\* Spark.returnInstance(instance)
Spark_returnInstance(W, id) == [W EXCEPT !.sparkPool = Append(@, id)]

\* BurstFlash.add(x, y, radius)
BurstFlash_add(W, x, y, radius) ==
  LET id      == PoolTop(W.flashPool, W.flash)
      inst    == [x |-> x, y |-> y, radius |-> radius]
      flashes == IF Len(W.flashPool) > 0 THEN [W.flash EXCEPT ![id] = inst]
                                         ELSE Append(W.flash, inst)
  IN [W EXCEPT !.flash = flashes, !.flashPool = PoolRest(@),
               !.flashActive = Append(@, id), !.ret = id,
               !.log.newFlashes = @ + 1]

\* BurstFlash.returnInstance(instance)
BurstFlash_returnInstance(W, id) == [W EXCEPT !.flashPool = Append(@, id)]

\* the sourceShell argument of add: a shell or a parent star, or nothing
Source(obj) == [given |-> TRUE, depthLayer |-> obj.depthLayer,
                intensityMultiplier |-> obj.intensityMultiplier]
NoSource == [given |-> FALSE, depthLayer |-> "undefined",
             intensityMultiplier |-> NoNumber]

(* ---------------------------------------------------------------------- *)
(* Burst geometry                                                           *)
(* ---------------------------------------------------------------------- *)
\* createParticleArc(start, arcLength, count, randomness, particleFactory):
\* the angles handed to particleFactory, in order
RECURSIVE ArcAngles(_, _, _, _, _, _)
ArcAngles(angle, end, angleDelta, randomness, seed, k) ==
  IF (end > angle /\ angleDelta > 0) \/ (end < angle /\ angleDelta < 0)
    THEN <<angle + (Rnd(seed, k) * ((angleDelta * randomness) \div PS)) \div RandLevels>>
         \o ArcAngles(angle + angleDelta, end, angleDelta, randomness, seed, k + 1)
    ELSE <<>>

createParticleArc(start, arcLength, count, randomness, seed) ==
  ArcAngles(start, start + arcLength - (arcLength \div count) \div 2,
            arcLength \div count, randomness, seed, 0)

\* a circumference four times too small
BurstCQuartered(count) == (ISqrt(count * AS2_OVER_PI) * PI_FP) \div (4 * AS)

\* createBurst: C = 2 * R * PI with R = 0.5 * Math.sqrt(count / Math.PI), in 1/AS
\* (count / Math.PI is count * AS2_OVER_PI in 1/AS^2; exact for count <= 67)
BurstC(count) == (ISqrt(count * AS2_OVER_PI) * PI_FP) \div AS

\* the particles of a ring: <<angle, ringSize>> for every j with j < partsPerArc
RingParticles(partsPerFullRing, ringSize, i, seed, startAngle, arcLength) ==
  LET partsPerArc          == (partsPerFullRing * ((arcLength * AS) \div PI_2)) \div AS
      angleInc             == (PI_2 * AS) \div partsPerFullRing
      angleOffset          == (Rnd(seed, i) * angleInc) \div RandLevels + startAngle
      maxRandomAngleOffset == (angleInc * 33) \div 100
  IN [j \in 1..(IF partsPerArc > 0 THEN CeilDiv(partsPerArc, AS) ELSE 0) |->
        [angle    |-> angleInc * (j - 1) + angleOffset
                      + (Rnd(seed, i + j) * maxRandomAngleOffset) \div RandLevels,
         ringSize |-> ringSize]]

\* ring i: ringAngle = i / C_HALF * PI_HALF, ringSize = Math.cos(ringAngle),
\* partsPerFullRing = C * ringSize
RingOfSize(C, ringSize, i, seed, startAngle, arcLength) ==
  RingParticles((C * ringSize) \div AS, ringSize, i, seed, startAngle, arcLength)

BurstRing(C, i, seed, startAngle, arcLength) ==
  RingOfSize(C, Cos((i * AS * PI_HALF) \div (C \div 2)), i, seed, startAngle, arcLength)

\* for (let i = 0; i <= C_HALF; i++)
RECURSIVE BurstRings(_, _, _, _, _)
BurstRings(C, i, seed, startAngle, arcLength) ==
  IF i * AS <= C \div 2
    THEN BurstRing(C, i, seed, startAngle, arcLength)
         \o BurstRings(C, i + 1, seed, startAngle, arcLength)
    ELSE <<>>

\* createBurst(count, particleFactory, startAngle, arcLength): the arguments
\* handed to particleFactory, in order
createBurst(count, seed, startAngle, arcLength) ==
  BurstRings(BurstC(count), 0, seed, startAngle, arcLength)

(* ---------------------------------------------------------------------- *)
(* Secondary effects                                                        *)
(* ---------------------------------------------------------------------- *)
\* crossetteEffect(star): one Star.add per angle of the arc
RECURSIVE CrossetteAdds(_, _, _, _)
CrossetteAdds(W, id, angles, k) ==
  IF k > Len(angles) \/ W.threw THEN W
  ELSE CrossetteAdds(
         Star_add(Drawn(W), W.star[id].x, W.star[id].y, W.star[id].color, angles[k],
                  (Random(W) * 600) \div RandLevels + 750,
                  600, 0, 0, Source(W.star[id])),
         id, angles, k + 1)

crossetteEffect(W, id) ==
  CrossetteAdds(Drawn(W), id,
                createParticleArc((Random(W) * PI_HALF) \div RandLevels,
                                  PI_2, 4, 500, W.seed), 1)

\* floralEffect(star): one Star.add per direction of the burst, then a flash
RECURSIVE FloralAdds(_, _, _, _)
FloralAdds(W, id, emits, k) ==
  IF k > Len(emits) \/ W.threw THEN W
  ELSE FloralAdds(
         Star_add(Drawn(W), W.star[id].x, W.star[id].y, W.star[id].color,
                  emits[k].angle,
                  (emits[k].ringSize * 2400) \div AS,
                  1000 + (Random(W) * 300) \div RandLevels,
                  W.star[id].speedX, W.star[id].speedY, Source(W.star[id])),
         id, emits, k + 1)

FloralFlash(W, id) ==
  IF W.threw THEN W ELSE BurstFlash_add(W, W.star[id].x, W.star[id].y, 46)

floralEffect(W, id) ==
  FloralFlash(FloralAdds(W, id, createBurst(12, W.seed, 0, PI_2), 1), id)

\* Math.pow(Math.random(), 0.45) * 2.4 for the four levels of Math.random()
CrackleSpeed == <<0, 1286, 1757, 2109>>

\* crackleEffect(star): one Spark.add per angle of the arc, always gold
RECURSIVE CrackleAdds(_, _, _, _)
CrackleAdds(W, id, angles, k) ==
  IF k > Len(angles) \/ W.threw THEN W
  ELSE CrackleAdds(
         Spark_add(Drawn(Drawn(W)), W.star[id].x, W.star[id].y, "Gold", angles[k],
                   CrackleSpeed[Random(W) + 1],
                   300 + (Random(Drawn(W)) * 200) \div RandLevels,
                   Source(W.star[id])),
         id, angles, k + 1)

\* a crackle of eight sparks
crackleEffectOfEight(W, id) ==
  CrackleAdds(W, id, createParticleArc(0, PI_2, 8, 1800, W.seed), 1)

crackleEffect(W, id) ==
  CrackleAdds(W, id, createParticleArc(0, PI_2, 16, 1800, W.seed), 1)

\* the handler called: instance.onDeath(instance)
RunOnDeath(W, id) ==
  CASE W.star[id].onDeath = "crossette" -> crossetteEffect(W, id)
    [] W.star[id].onDeath = "floral"    -> floralEffect(W, id)
    [] W.star[id].onDeath = "crackle"   -> crackleEffect(W, id)

\* history: what the handler of star id added, from the heap before and after,
\* with the colours of the added sparks and the lists that hold them when the
\* handler returns
Added(before, after) == SubSeq(after, Len(before) + 1, Len(after))

ListsHolding(active, ids) ==
  {c \in DOMAIN active : \E k \in 1..Len(active[c]) : active[c][k] \in ids}

DeathLogged(W, W1, id) ==
  [W1 EXCEPT !.log.deaths = Append(@,
     [id |-> id, gen |-> W.star[id].gen, onDeath |-> W.star[id].onDeath,
      color |-> W.star[id].color,
      stars |-> Added(W.log.newStars, W1.log.newStars),
      sparks |-> Added(W.log.newSparks, W1.log.newSparks),
      sparkColors |-> {W1.spark[k].color :
                         k \in Range(Added(W.log.newSparks, W1.log.newSparks))},
      sparkLists |-> ListsHolding(W1.sparkActive,
                                  Range(Added(W.log.newSparks, W1.log.newSparks))),
      flashes |-> W1.log.newFlashes - W.log.newFlashes])]

\* instance.onDeath && instance.onDeath(instance)
OnDeath(W, id) ==
  IF ~Truthy(W.star[id].onDeath) THEN W
  ELSE DeathLogged(W, RunOnDeath([W EXCEPT !.star[id].deathCalls = @ + 1], id), id)

CleanupUnlessThrown(W, id) == IF W.threw THEN W ELSE Star_cleanup(W, id)

\* Star.returnInstance(instance)
Star_returnInstance(W, id) == CleanupUnlessThrown(OnDeath(W, id), id)

(* ---------------------------------------------------------------------- *)
(* Shell                                                                    *)
(* ---------------------------------------------------------------------- *)
\* an options object; 0, FALSE and "undefined" stand for an absent property
Options(spreadSize, starCount, starLife, color, glitter, glitterColor, crossette, floral, crackle) ==
  [spreadSize |-> spreadSize, starCount |-> starCount, starLife |-> starLife,
   starLifeVariation |-> 0, starDensity |-> 0,
   color |-> color, glitter |-> glitter, glitterColor |-> glitterColor,
   crossette |-> crossette, floral |-> floral, crackle |-> crackle,
   depthLayer |-> "undefined", intensityMultiplier |-> NoNumber]

\* Math.max(7, Math.floor(scaledSize * scaledSize * density * 1.7)),
\* scaledSize = spreadSize / 54, density = options.starDensity || 1
DerivedStarCount(options) ==
  Max(7, ((((options.spreadSize * options.spreadSize * 17) \div 10)
           * (IF options.starDensity # 0 THEN options.starDensity ELSE PS))
          \div (54 * 54 * PS)))

\* new Shell(options), for options that name their colour
Shell(options) ==
  [options EXCEPT
     !.starLifeVariation = IF @ # 0 THEN @ ELSE 125,
     !.glitterColor = IF Truthy(@) THEN @ ELSE options.color,
     !.starCount = IF @ # 0 THEN @ ELSE DerivedStarCount(options)]

\* the glitter lookup of Shell.burst
Glitter(s, shell) ==
  CASE shell.glitter = "light"  -> [s EXCEPT !.sparkFreq = 308, !.sparkSpeed = 300,
                                             !.sparkLife = 300,
                                             !.sparkColor = shell.glitterColor]
    [] shell.glitter = "medium" -> [s EXCEPT !.sparkFreq = 154, !.sparkSpeed = 440,
                                             !.sparkLife = 700,
                                             !.sparkColor = shell.glitterColor]
    [] shell.glitter = "heavy"  -> [s EXCEPT !.sparkFreq = 62, !.sparkSpeed = 800,
                                             !.sparkLife = 1400,
                                             !.sparkColor = shell.glitterColor]
    [] OTHER                    -> s

\* effect flags of which the first one set stays
SpecialEffectFirstWins(shell) ==
  IF shell.crossette THEN "crossette"
  ELSE IF shell.floral THEN "floral"
  ELSE IF shell.crackle THEN "crackle"
  ELSE "undefined"

\* the effect flags of Shell.burst: the last one assigned stays
SpecialEffect(shell) ==
  IF shell.crackle THEN "crackle"
  ELSE IF shell.floral THEN "floral"
  ELSE IF shell.crossette THEN "crossette"
  ELSE "undefined"

\* the body of the particleFactory of Shell.burst, after Star.add: a star
\* given no effect keeps the onDeath its object had
BurstStar(s, shell) ==
  IF SpecialEffect(shell) = "undefined" THEN Glitter(s, shell)
  ELSE [Glitter(s, shell) EXCEPT !.onDeath = SpecialEffect(shell),
                                 !.effect = SpecialEffect(shell)]

Configured(W, shell) ==
  IF W.threw THEN W ELSE [W EXCEPT !.star[W.ret] = BurstStar(@, shell)]

\* starLife + starLife * (Math.random() - 0.5) * variation
StarLife(starLife, variation, rnd) ==
  starLife + (starLife * (2 * rnd - RandLevels) * variation) \div (2 * RandLevels * PS)

RECURSIVE BurstAdds(_, _, _, _, _, _)
BurstAdds(W, shell, x, y, emits, k) ==
  IF k > Len(emits) \/ W.threw THEN W
  ELSE BurstAdds(
         Configured(
           Star_add(Drawn(W), x, y, shell.color, emits[k].angle,
                    (emits[k].ringSize * ((shell.spreadSize * PS) \div 96)) \div AS,
                    StarLife(IF shell.starLife # 0 THEN shell.starLife ELSE 1500,
                             shell.starLifeVariation, Random(W)),
                    0, 0, Source(shell)),
           shell),
         shell, x, y, emits, k + 1)

BurstFlashed(W, shell, x, y) ==
  IF W.threw THEN W ELSE BurstFlash_add(W, x, y, shell.spreadSize \div 4)

\* Shell.burst(x, y)
Shell_burst(W, shell, x, y) ==
  BurstFlashed(
    BurstAdds(W, shell, x, y, createBurst(shell.starCount, W.seed, 0, PI_2), 1),
    shell, x, y)

(* ---------------------------------------------------------------------- *)
(* Shell presets: the options a preset can return when lastColor is         *)
(* previous, for a whole-numbered size                                      *)
(* ---------------------------------------------------------------------- *)
LimitWhite == ColorOptions(TRUE, FALSE, "undefined")
NotWhite == ColorOptions(FALSE, FALSE, "White")

crysanthemumShell(size, previous) ==
  { Options(300 + size * 100, 75 + size * 25, 900 + size * 200, color,
            "light", "Gold", FALSE, FALSE, FALSE) :
      color \in randomColor(LimitWhite, previous) }

\* a ring shell that draws its glitter colour as well
ringShellOfRandomGlitter(size, previous) ==
  { Options(300 + size * 100, 75 + size * 25, 900 + size * 200, color[1],
            "medium", color[2], FALSE, FALSE, FALSE) :
      color \in randomColor(LimitWhite, previous) \X randomColor(NotWhite, previous) }

ringShell(size, previous) ==
  { Options(300 + size * 100, 75 + size * 25, 900 + size * 200, color,
            "medium", "White", FALSE, FALSE, FALSE) :
      color \in randomColor(LimitWhite, previous) }

willowShell(size, previous) ==
  { Options(300 + size * 100, 100 + size * 50, 1400 + size * 300, color,
            "willow", "Gold", FALSE, FALSE, FALSE) :
      color \in randomColor(LimitWhite, previous) }

\* color is drawn first, glitterColor second
palmShell(size, previous) ==
  UNION { { Options(250 + size * 75, 40 + size * 20, 1800 + size * 200, color,
                    "thick", glitterColor, FALSE, FALSE, FALSE) :
              glitterColor \in randomColor(NotWhite, color) } :
          color \in randomColor(LimitWhite, previous) }

PresetNames == {"crysanthemumShell", "ringShell", "willowShell", "palmShell"}

Preset(fn, size, previous) ==
  CASE fn = "crysanthemumShell" -> crysanthemumShell(size, previous)
    [] fn = "ringShell"         -> ringShell(size, previous)
    [] fn = "willowShell"       -> willowShell(size, previous)
    [] fn = "palmShell"         -> palmShell(size, previous)

\* lastColor after the preset returned options: the colour drawn last
LastDrawn(fn, options) ==
  IF fn = "palmShell" THEN options.glitterColor ELSE options.color

(* ---------------------------------------------------------------------- *)
(* Integrator                                                               *)
(* ---------------------------------------------------------------------- *)
\* 1 - (1 - airDrag) * speed
Drag(airDrag, speed) == PS - ((PS - airDrag) * speed) \div PS

\* timeStep / 1000 * GRAVITY
GAcc(timeStep) == (timeStep * GRAVITY) \div 1000

\* Math.pow(star.life / star.fullLife, 0.5)
BurnRate(life, fullLife) == ISqrt(((life * PS) \div fullLife) * PS)

\* an interval that does not depend on the burn rate
SparkIntervalFixed(sparkFreq, burnRate) == sparkFreq * 750

\* the interval the spark timer is re-armed with:
\* sparkFreq * 0.75 + sparkFreq * burnRateInverse * 4, in 1/1000 ms
SparkInterval(sparkFreq, burnRate) ==
  sparkFreq * 750 + sparkFreq * (PS - burnRate) * 4

\* while (star.sparkTimer < 0) { star.sparkTimer += ...; Spark.add(...) }
RECURSIVE EmitSparks(_, _, _)
EmitSparks(W, id, burnRate) ==
  IF W.star[id].sparkTimer >= 0 \/ W.threw THEN W
  ELSE EmitSparks(
         Spark_add([Drawn(Drawn(Drawn(W))) EXCEPT
                      !.star[id].sparkTimer = @ + SparkInterval(W.star[id].sparkFreq, burnRate)],
                   W.star[id].x, W.star[id].y, W.star[id].sparkColor,
                   (Random(W) * PI_2) \div RandLevels,
                   (((Random(Drawn(W)) * W.star[id].sparkSpeed) \div RandLevels) * burnRate)
                     \div PS,
                   (W.star[id].sparkLife * 8) \div 10
                     + (Random(Drawn(Drawn(W)))
                        * ((W.star[id].sparkLifeVariation * W.star[id].sparkLife) \div PS))
                       \div RandLevels,
                   Source(W.star[id])),
         id, burnRate)

\* a step that moves the star by its velocity whatever the speed factor
MovedByVelocity(s, drag, timeStep, speed) ==
  [s EXCEPT !.prevX = s.x, !.prevY = s.y,
            !.x = s.x + s.speedX,
            !.y = s.y + s.speedY,
            !.speedX = (s.speedX * drag) \div PS,
            !.speedY = (s.speedY * drag) \div PS + GAcc(timeStep)]

\* position, drag and gravity of a star that lives on
Moved(s, drag, timeStep, speed) ==
  [s EXCEPT !.prevX = s.x, !.prevY = s.y,
            !.x = s.x + (s.speedX * speed) \div PS,
            !.y = s.y + (s.speedY * speed) \div PS,
            !.speedX = (s.speedX * drag) \div PS,
            !.speedY = (s.speedY * drag) \div PS + GAcc(timeStep)]

StarDrag(s, speed) ==
  IF ~s.heavy THEN Drag(Star_airDrag, speed) ELSE Drag(Star_airDragHeavy, speed)

\* if (star.sparkFreq) { star.sparkTimer -= timeStep; while ... }
SparksEmitted(W, id, timeStep) ==
  IF W.star[id].sparkFreq # 0
    THEN EmitSparks([W EXCEPT !.star[id].sparkTimer = @ - timeStep * PS], id,
                    BurnRate(W.star[id].life, W.star[id].fullLife))
    ELSE W

\* a colour change that moves the star and leaves its colour as it was
TransitionKeepingColor(W, color, i, id) ==
  [W EXCEPT !.star[id].colorChanged = TRUE,
            !.starActive[color] = Splice(@, i),
            !.starActive[W.star[id].secondColor] = Append(@, id)]

\* a colour change that leaves the star in its list
TransitionKeepingList(W, color, i, id) ==
  [W EXCEPT !.star[id].colorChanged = TRUE,
            !.star[id].color = W.star[id].secondColor]

\* the colour change: the star moves to the list of its second colour
Transition(W, color, i, id) ==
  IF W.star[id].secondColor \notin DOMAIN W.starActive
    THEN [W EXCEPT !.star[id].colorChanged = TRUE,
                   !.star[id].color = W.star[id].secondColor,
                   !.starActive[color] = Splice(@, i),
                   !.threw = TRUE]
    ELSE [W EXCEPT !.star[id].colorChanged = TRUE,
                   !.star[id].color = W.star[id].secondColor,
                   !.starActive[color] = Splice(@, i),
                   !.starActive[W.star[id].secondColor] = Append(@, id),
                   !.star[id].sparkFreq =
                      IF W.star[id].secondColor = INVISIBLE THEN 0 ELSE @]

\* if (star.life < star.transitionTime) { if (star.secondColor && !star.colorChanged) ...
ColorChanged(W, color, i, id) ==
  IF ~W.threw /\ W.star[id].life < W.star[id].transitionTime
     /\ Truthy(W.star[id].secondColor) /\ ~W.star[id].colorChanged
    THEN Transition(W, color, i, id)
    ELSE W

\* ... if (star.strobe) star.visible = Math.floor(star.life / star.strobeFreq) % 3 === 0 }
Strobed(W, id) ==
  IF ~W.threw /\ W.star[id].life < W.star[id].transitionTime /\ W.star[id].strobe
    THEN [W EXCEPT !.star[id].visible =
            W.star[id].strobeFreq > 0
            /\ (W.star[id].life \div W.star[id].strobeFreq) % 3 = 0]
    ELSE W

\* the else branch of the star loop: the star lives on.  spinRadius is 0 for
\* every star the core makes, so the spin offset is never applied.
MoveStar(W, color, i, id, timeStep, speed) ==
  Strobed(
    ColorChanged(
      SparksEmitted(
        [W EXCEPT !.star[id] = Moved(@, StarDrag(@, speed), timeStep, speed)],
        id, timeStep),
      color, i, id),
    id)

\* a death that leaves the star in its list
StarAgedWithoutSplice(W, color, i, id, timeStep, speed) ==
  IF W.star[id].life <= 0
    THEN Star_returnInstance(W, id)
    ELSE MoveStar(W, color, i, id, timeStep, speed)

\* the star loop's body once the frame check let the star through
StarAged(W, color, i, id, timeStep, speed) ==
  IF W.star[id].life <= 0
    THEN Star_returnInstance([W EXCEPT !.starActive[color] = Splice(@, i)], id)
    ELSE MoveStar(W, color, i, id, timeStep, speed)

\* a step that does not burn the star's life
AgedWithoutBurning(W, id, timeStep) ==
  [W EXCEPT !.star[id].updateFrame = W.currentFrame,
            !.log.processed = Append(@, id)]

\* star.updateFrame = currentFrame; star.life -= timeStep
Aged(W, id, timeStep) ==
  [W EXCEPT !.star[id].updateFrame = W.currentFrame,
            !.star[id].life = @ - timeStep,
            !.log.processed = Append(@, id)]

\* an iteration that does not look at the frame the star was updated in
StarStepEveryVisit(W, color, i, id, timeStep, speed) ==
  StarAged(Aged(W, id, timeStep), color, i, id, timeStep, speed)

\* one iteration of `for (let i = stars.length - 1; i >= 0; i--)`, for star id
StarStep(W, color, i, id, timeStep, speed) ==
  IF W.star[id].updateFrame = W.currentFrame THEN W
  ELSE StarAged(Aged(W, id, timeStep), color, i, id, timeStep, speed)

RECURSIVE StarLoop(_, _, _, _, _)
StarLoop(W, color, i, timeStep, speed) ==
  IF i < 1 \/ W.threw THEN W
  ELSE StarLoop(StarStep(W, color, i, W.starActive[color][i], timeStep, speed),
                color, i - 1, timeStep, speed)

\* a spark slowed by the drag of a light star
MovedSparkByStarDrag(s, drag, timeStep, speed) ==
  [s EXCEPT !.prevX = s.x, !.prevY = s.y,
            !.x = s.x + (s.speedX * speed) \div PS,
            !.y = s.y + (s.speedY * speed) \div PS,
            !.speedX = (s.speedX * Drag(Star_airDrag, speed)) \div PS,
            !.speedY = (s.speedY * Drag(Star_airDrag, speed)) \div PS + GAcc(timeStep)]

\* position, drag and gravity of a spark that lives on
MovedSpark(s, drag, timeStep, speed) ==
  [s EXCEPT !.prevX = s.x, !.prevY = s.y,
            !.x = s.x + (s.speedX * speed) \div PS,
            !.y = s.y + (s.speedY * speed) \div PS,
            !.speedX = (s.speedX * drag) \div PS,
            !.speedY = (s.speedY * drag) \div PS + GAcc(timeStep)]

SparkAged(W, color, i, id, timeStep, speed) ==
  IF W.spark[id].life <= 0
    THEN Spark_returnInstance([W EXCEPT !.sparkActive[color] = Splice(@, i)], id)
    ELSE [W EXCEPT !.spark[id] =
            MovedSpark(@, Drag(Spark_airDrag, speed), timeStep, speed)]

\* an iteration that skips the sparks added during the call, as the frame
\* check of the star loop does for stars
SparkStepOfOldSparks(W, color, i, id, timeStep, speed) ==
  IF \E k \in 1..Len(W.log.newSparks) : W.log.newSparks[k] = id THEN W
  ELSE SparkAged([W EXCEPT !.spark[id].life = @ - timeStep], color, i, id, timeStep, speed)

\* one iteration of `for (let i = sparks.length - 1; i >= 0; i--)`, for spark id
SparkStep(W, color, i, id, timeStep, speed) ==
  SparkAged([W EXCEPT !.spark[id].life = @ - timeStep], color, i, id, timeStep, speed)

RECURSIVE SparkLoop(_, _, _, _, _)
SparkLoop(W, color, i, timeStep, speed) ==
  IF i < 1 \/ W.threw THEN W
  ELSE SparkLoop(SparkStep(W, color, i, W.sparkActive[color][i], timeStep, speed),
                 color, i - 1, timeStep, speed)

SparkPass(W, color, timeStep, speed) ==
  SparkLoop(W, color, Len(W.sparkActive[color]), timeStep, speed)

StarPass(W, color, timeStep, speed) ==
  StarLoop(W, color, Len(W.starActive[color]), timeStep, speed)

\* COLOR_CODES_W_INVIS.forEach(color => { stars loop; sparks loop })
RECURSIVE ColorLoop(_, _, _, _)
ColorLoop(W, c, timeStep, speed) ==
  IF c > Len(COLOR_CODES_W_INVIS) \/ W.threw THEN W
  ELSE ColorLoop(
         SparkPass(StarPass(W, COLOR_CODES_W_INVIS[c], timeStep, speed),
                   COLOR_CODES_W_INVIS[c], timeStep, speed),
         c + 1, timeStep, speed)

\* updateFireworks(frameTime, speed)
updateFireworks(W, frameTime, speed) ==
  ColorLoop([W EXCEPT !.currentFrame = @ + 1,
                      !.log.frameTime = frameTime, !.log.speed = speed],
            1, frameTime, speed)


(* ---------------------------------------------------------------------- *)
(* The core driven through its interface: Shell.burst, updateFireworks and  *)
(* the renderer's drain of the burst flashes                                *)
(* ---------------------------------------------------------------------- *)
\* the shells launched: the scenario shell of ten red stars without glitter,
\* one shell per effect and glitter profile, one with every effect flag set,
\* and a crackle shell of a colour that comes after Gold in the colour order
ShellOptions ==
  { Options(400, 10, 1000, "Red", "undefined", "undefined", FALSE, FALSE, FALSE),
    Options(300, 1, 300, "Green", "light", "Gold", TRUE, FALSE, FALSE),
    Options(300, 1, 400, "Gold", "medium", "White", FALSE, TRUE, FALSE),
    Options(250, 2, 300, "Blue", "heavy", "undefined", TRUE, TRUE, TRUE),
    Options(250, 1, 300, "White", "undefined", "undefined", FALSE, FALSE, TRUE) }

\* <<frameTime, speed>> of the updateFireworks calls
FrameInputs == { <<0, 0>>, <<0, PS>>, <<100, PS>>, <<500, 3 * PS>> }

BurstX == 100 * PS
BurstY == 100 * PS

\* no call of the colour model
NoCall ==
  [fn |-> "none",
   colorEvolution |-> [startColor |-> NoColor, midColor |-> NoColor,
                       endColor |-> NoColor],
   lifeRatio |-> 0, baseColor |-> "undefined", variation |-> 0, seed |-> 0,
   done |-> FALSE, ret |-> NoColor]

\* the program state after W, and the history of the operation
Becomes(W) ==
  /\ star' = W.star
  /\ starActive' = W.starActive
  /\ starPool' = W.starPool
  /\ spark' = W.spark
  /\ sparkActive' = W.sparkActive
  /\ sparkPool' = W.sparkPool
  /\ flash' = W.flash
  /\ flashActive' = W.flashActive
  /\ flashPool' = W.flashPool
  /\ currentFrame' = W.currentFrame
  /\ last' = [W.log EXCEPT !.threw = W.threw]

(* ---------------------------------------------------------------------- *)
(* The page: app.js and the PupilFireworksApp instances it makes            *)
(* ---------------------------------------------------------------------- *)
\* restartApp calls followed
MaxRestarts == 2

\* pointer taps and space presses followed
MaxTaps == 1

\* maxWaitTime / checkInterval of waitForInitialization (10000 / 100 in the
\* source), in checks of the model
WaitChecks == 3

\* a PupilFireworksApp whose constructor has returned: init() has shown the
\* loading screen, made the stages and awaits loadAssets
NewApp ==
  [isInitialized |-> FALSE, isRunning |-> FALSE,
   loading |-> TRUE,      \* init() is at `await this.loadAssets()`
   visibility |-> FALSE,  \* the document's visibilitychange listener of bindEvents
   pointer |-> FALSE,     \* the 'pointerstart' listener on stages.main
   ticker |-> FALSE,      \* stages.main.rafId is set
   timers |-> 0,          \* setTimeout(() => this.createFirework(...)) pending
   destroyed |-> FALSE]   \* history: destroy() has been called

\* app.js as loaded, before DOMContentLoaded
NoPage ==
  [booted |-> FALSE,
   app |-> 0,                  \* `let app = null`; else the identity 1..Len(apps)
   apps |-> <<>>,              \* every PupilFireworksApp made
   isInitializing |-> FALSE,
   waiting |-> FALSE,          \* checkReady of waitForInitialization is scheduled
   elapsed |-> 0,              \* elapsed / checkInterval
   restartTimers |-> 0,        \* setTimeout(() => initializeApp(), 100) pending
   spaceTimers |-> 0,          \* setTimeout(() => app.createFirework(...), 200) pending
   keyboardHandler |-> FALSE,  \* the keydown listener is registered
   hidden |-> FALSE,           \* document.hidden
   \* history
   restartCalls |-> 0, taps |-> 0, launchedStopped |-> FALSE,
   awaited |-> FALSE,          \* restartApp was called and the app has not run since
   glow |-> [pending |-> FALSE, burstCount |-> 0]]

\* start()
App_start(P, i) ==
  IF ~P.apps[i].isInitialized THEN P
  ELSE [P EXCEPT !.apps[i].isRunning = TRUE, !.apps[i].ticker = TRUE]

\* pause()
App_pause(P, i) == [P EXCEPT !.apps[i].isRunning = FALSE]

\* resume()
App_resume(P, i) ==
  IF P.apps[i].isInitialized THEN [P EXCEPT !.apps[i].isRunning = TRUE] ELSE P

\* stop()
App_stop(P, i) == [P EXCEPT !.apps[i].isRunning = FALSE, !.apps[i].ticker = FALSE]


\* destroy(): stop(), Stage.destroy() of both stages (which clears the stage's
\* listeners), and the removal of a resize listener; the document's
\* visibilitychange listener and the pending timers stay
App_destroy(P, i) ==
  [App_stop(P, i) EXCEPT !.apps[i].pointer = FALSE, !.apps[i].destroyed = TRUE]

\* the rest of init() once loadAssets has resolved: initMaskingSystem,
\* bindEvents, handleResize, isInitialized = true
App_initialized(P, i) ==
  [P EXCEPT !.apps[i].loading = FALSE, !.apps[i].visibility = TRUE,
            !.apps[i].pointer = TRUE, !.apps[i].isInitialized = TRUE]

\* createFirework(x, y, depthOptions) builds a Shell of a preset and bursts it,
\* whether the app runs or not
App_createFirework(P, i) ==
  [P EXCEPT !.launchedStopped = @ \/ ~P.apps[i].isRunning]




\* initializeApp() up to `await waitForInitialization()`: the first checkReady
\* runs at once and finds the new app not initialized
initializeApp(P) ==
  IF P.isInitializing \/ P.app # 0 THEN P
  ELSE [P EXCEPT !.isInitializing = TRUE,
                 !.apps = Append(@, NewApp), !.app = Len(P.apps) + 1,
                 !.waiting = TRUE, !.elapsed = 1]

\* initializeApp() after the await: app.start(), setupKeyboardShortcuts(),
\* and `finally { isInitializing = false }`
Initialized(P) ==
  [App_start(P, P.app) EXCEPT !.keyboardHandler = TRUE, !.isInitializing = FALSE,
                              !.waiting = FALSE, !.elapsed = 0]

\* the rejection 'Initialization timeout': the catch shows the error,
\* `finally { isInitializing = false }`
TimedOut(P) == [P EXCEPT !.isInitializing = FALSE, !.waiting = FALSE, !.elapsed = 0]

\* checkReady of waitForInitialization, run by its timer
checkReady(P) ==
  IF P.app # 0 /\ P.apps[P.app].isInitialized THEN Initialized(P)
  ELSE IF P.elapsed + 1 >= WaitChecks THEN TimedOut(P)
  ELSE [P EXCEPT !.elapsed = @ + 1]

\* restartApp()
restartApp(P) ==
  [(IF P.app # 0 THEN [App_destroy(P, P.app) EXCEPT !.app = 0] ELSE P)
     EXCEPT !.restartTimers = @ + 1, !.restartCalls = @ + 1, !.awaited = TRUE]

\* the visibilitychange listeners of bindEvents, one per app that has bound
\* its events: pause() when the document is hidden, resume() when it is shown
VisibilityChanged(P, hidden) ==
  [P EXCEPT !.hidden = hidden,
            !.apps = [i \in DOMAIN P.apps |->
                        IF ~P.apps[i].visibility THEN P.apps[i]
                        ELSE IF hidden THEN [P.apps[i] EXCEPT !.isRunning = FALSE]
                        ELSE IF P.apps[i].isInitialized
                               THEN [P.apps[i] EXCEPT !.isRunning = TRUE]
                        ELSE P.apps[i]]]

\* the page once the first initializeApp has run to its end with the assets
\* loaded: the app is started
RunningPage ==
  checkReady(App_initialized([initializeApp(NoPage) EXCEPT !.booted = TRUE], 1))

\* the module as loaded: empty pools, empty lists, frame counter 0
Loaded ==
  /\ star = <<>>
  /\ starActive = createParticleCollection
  /\ starPool = <<>>
  /\ spark = <<>>
  /\ sparkActive = createParticleCollection
  /\ sparkPool = <<>>
  /\ flash = <<>>
  /\ flashActive = <<>>
  /\ flashPool = <<>>
  /\ currentFrame = 0
  /\ bursts = 0
  /\ returns = 0
  /\ adds = 0
  /\ lastColor = "undefined"
  /\ last = [op |-> "init", frameTime |-> 0, speed |-> 0,
             starCount |-> 0, color |-> "undefined",
             newStars |-> <<>>, newSparks |-> <<>>, newFlashes |-> 0,
             deaths |-> <<>>, processed |-> <<>>, threw |-> FALSE]

Init == Loaded /\ call = NoCall /\ page = NoPage

\* new Shell(options).burst(x, y)
Burst ==
  /\ bursts < MaxBursts
  /\ \E options \in ShellOptions :
       Becomes(Shell_burst([World(bursts % RandLevels, "burst") EXCEPT
                              !.log.starCount = Shell(options).starCount,
                              !.log.color = Shell(options).color],
                           Shell(options), BurstX, BurstY))
  /\ bursts' = bursts + 1
  /\ UNCHANGED <<page, returns, adds, lastColor, call>>

\* updateFireworks(frameTime, speed)
Update ==
  /\ currentFrame < MaxFrames
  /\ \E in \in FrameInputs :
       Becomes(updateFireworks(World(currentFrame % RandLevels, "update"), in[1], in[2]))
  /\ UNCHANGED <<page, bursts, returns, adds, lastColor, call>>

\* renderBurstFlashes: while (active.length) { bf = active.pop(); ...; returnInstance(bf) }
RECURSIVE DrainFlashes(_)
DrainFlashes(W) ==
  IF Len(W.flashActive) = 0 THEN W
  ELSE DrainFlashes(
         BurstFlash_returnInstance(
           [W EXCEPT !.flashActive = SubSeq(@, 1, Len(@) - 1)],
           W.flashActive[Len(W.flashActive)]))

RenderBurstFlashes ==
  /\ Len(flashActive) > 0
  /\ Becomes(DrainFlashes(World(0, "render")))
  /\ UNCHANGED <<page, bursts, returns, adds, lastColor, call>>

Next == Burst \/ Update \/ RenderBurstFlashes

Spec == Init /\ [][Next]_vars

(* ---------------------------------------------------------------------- *)
(* The pools called by a caller of the core: returnInstance is exported     *)
(* with Star, Spark and BurstFlash, and a caller holds the instances that   *)
(* add returned to it                                                       *)
(* ---------------------------------------------------------------------- *)
\* the instances a caller passes: the one added last to a list, or the one
\* returned last
Newest(s) == IF Len(s) > 0 THEN {s[Len(s)]} ELSE {}
Held(active, pool) == UNION {Newest(active[c]) : c \in DOMAIN active} \cup Newest(pool)

\* Star.returnInstance(instance), called from outside the integrator
ReturnStar ==
  /\ returns < MaxReturns
  /\ \E id \in Held(starActive, starPool) :
       Becomes(Star_returnInstance(World(0, "returnInstance"), id))
  /\ returns' = returns + 1
  /\ UNCHANGED <<page, bursts, adds, lastColor, call>>

\* Spark.returnInstance(instance), called from outside the integrator
ReturnSpark ==
  /\ returns < MaxReturns
  /\ \E id \in Held(sparkActive, sparkPool) :
       Becomes(Spark_returnInstance(World(0, "returnInstance"), id))
  /\ returns' = returns + 1
  /\ UNCHANGED <<page, bursts, adds, lastColor, call>>

\* BurstFlash.returnInstance(instance), called without the renderer's pop
ReturnFlash ==
  /\ returns < MaxReturns
  /\ \E id \in Newest(flashActive) \cup Newest(flashPool) :
       Becomes(BurstFlash_returnInstance(World(0, "returnInstance"), id))
  /\ returns' = returns + 1
  /\ UNCHANGED <<page, bursts, adds, lastColor, call>>

NextApi == Burst \/ Update \/ RenderBurstFlashes \/ ReturnStar \/ ReturnSpark \/ ReturnFlash

SpecApi == Init /\ [][NextApi]_vars

(* ---------------------------------------------------------------------- *)
(* One glittering star burning out: Star.add, then the spark frequency set  *)
(* on the returned star as Shell.burst does, then updateFireworks(100, 1)   *)
(* until the star is dead                                                   *)
(* ---------------------------------------------------------------------- *)
GlitterStar(W) == [W EXCEPT !.star[W.ret].sparkFreq = 100]

AddGlitterStar ==
  /\ Len(star) = 0
  /\ \E color \in Range(COLOR_CODES), angle \in {0, PI_HALF} :
       Becomes(GlitterStar(Star_add(World(0, "add"), BurstX, BurstY, color, angle,
                                    PS, 1000, 0, 0, NoSource)))
  /\ UNCHANGED <<page, bursts, returns, adds, lastColor, call>>

Tick ==
  /\ \E c \in ColorKeys : Len(starActive[c]) > 0
  /\ Becomes(updateFireworks(World(currentFrame % RandLevels, "update"), 100, PS))
  /\ UNCHANGED <<page, bursts, returns, adds, lastColor, call>>

NextGlitter == AddGlitterStar \/ Tick

SpecGlitter == Init /\ [][NextGlitter]_vars

(* ---------------------------------------------------------------------- *)
(* The functions of the colour model, each applied to drawn arguments       *)
(* ---------------------------------------------------------------------- *)
\* the colours of a schedule: rgb texts as generateColorVariation returns
\* them, and a palette code
ScheduleColors ==
  { RgbString(255, 0, 67), RgbString(20, 252, 86), RgbString(230, 230, 230),
    ColorString("Gold") }

ColorEvolutions ==
  [startColor : ScheduleColors, midColor : ScheduleColors \cup {NoColor},
   endColor : ScheduleColors]

EvolutionCalls ==
  { [NoCall EXCEPT !.fn = "interpolateColorEvolution", !.colorEvolution = ce,
                   !.lifeRatio = n] :
      ce \in ColorEvolutions, n \in 0..LifeRatioSteps }

VariationCalls ==
  { [NoCall EXCEPT !.fn = "generateColorVariation", !.baseColor = c,
                   !.variation = v, !.seed = sd] :
      c \in ColorKeys, v \in {0, 50, 120}, sd \in 0..(RandLevels - 1) }

InitColor == Loaded /\ call \in EvolutionCalls \cup VariationCalls /\ page = NoPage

Interpolate ==
  /\ call.fn = "interpolateColorEvolution" /\ ~call.done
  /\ call' = [call EXCEPT !.done = TRUE,
                          !.ret = interpolateColorEvolution(call.colorEvolution,
                                                            call.lifeRatio,
                                                            LifeRatioSteps)]
  /\ UNCHANGED <<page, star, starActive, starPool, spark, sparkActive, sparkPool,
                 flash, flashActive, flashPool, currentFrame, bursts, returns, adds,
                 lastColor, last>>

Vary ==
  /\ call.fn = "generateColorVariation" /\ ~call.done
  /\ call' = [call EXCEPT !.done = TRUE,
                          !.ret = generateColorVariation(call.baseColor,
                                                         call.variation, call.seed)]
  /\ UNCHANGED <<page, star, starActive, starPool, spark, sparkActive, sparkPool,
                 flash, flashActive, flashPool, currentFrame, bursts, returns, adds,
                 lastColor, last>>

NextColor == Interpolate \/ Vary

SpecColor == InitColor /\ [][NextColor]_vars

(* ---------------------------------------------------------------------- *)
(* A caller that sets a colour change on the stars it adds: Star.add, then  *)
(* secondColor and transitionTime written on the returned star, shells      *)
(* whose stars spawn children when they die, and updateFireworks            *)
(* ---------------------------------------------------------------------- *)
\* the stars a caller adds, by the number of adds made before: a change to a
\* list later in the colour order, to an earlier one, and a star without a
\* second colour; then a change to the star's own list and to the invisible
\* list
CallerStars(k) ==
  IF k % 2 = 0
    THEN { [color |-> "Red", secondColor |-> "Gold", transitionTime |-> 1200],
           [color |-> "Gold", secondColor |-> "Red", transitionTime |-> 950],
           [color |-> "White", secondColor |-> "undefined",
            transitionTime |-> NoNumber] }
    ELSE { [color |-> "Green", secondColor |-> "Green", transitionTime |-> 600],
           [color |-> "Blue", secondColor |-> INVISIBLE, transitionTime |-> 950] }

\* <<frameTime, speed>> of the updateFireworks calls of the caller
CallerFrames == { <<0, PS>>, <<100, PS>>, <<500, PS>> }

\* the shells a caller launches: a crossette shell of one star, and a floral
\* shell of one star that glitters
CallerShells ==
  { Options(300, 1, 300, "Green", "undefined", "undefined", TRUE, FALSE, FALSE),
    Options(300, 1, 400, "Gold", "medium", "White", FALSE, TRUE, FALSE) }

\* star.secondColor = ...; star.transitionTime = ... on the star add returned
WithSecondColor(W, s) ==
  IF W.threw THEN W
  ELSE [W EXCEPT !.star[W.ret].secondColor = s.secondColor,
                 !.star[W.ret].transitionTime = s.transitionTime]

\* Star.add(x, y, color, 0, 1, 1000), then the colour change set on the star
AddStar ==
  /\ adds + bursts < MaxAdds
  /\ \E s \in CallerStars(adds) :
       Becomes(WithSecondColor(
                 Star_add([World(adds % RandLevels, "Star.add") EXCEPT
                             !.log.color = s.color],
                          BurstX, BurstY, s.color, 0, PS, 1000, 0, 0, NoSource),
                 s))
  /\ adds' = adds + 1
  /\ UNCHANGED <<page, bursts, returns, lastColor, call>>

\* new Shell(options).burst(x, y) for a shell with an effect
LaunchShell ==
  /\ adds + bursts < MaxAdds
  /\ \E options \in CallerShells :
       Becomes(Shell_burst([World(bursts % RandLevels, "burst") EXCEPT
                              !.log.starCount = Shell(options).starCount,
                              !.log.color = Shell(options).color],
                           Shell(options), BurstX, BurstY))
  /\ bursts' = bursts + 1
  /\ UNCHANGED <<page, returns, adds, lastColor, call>>

\* updateFireworks(frameTime, speed)
Animate ==
  /\ currentFrame < MaxFrames
  /\ \E in \in CallerFrames :
       Becomes(updateFireworks(World(currentFrame % RandLevels, "update"), in[1], in[2]))
  /\ UNCHANGED <<page, bursts, returns, adds, lastColor, call>>

NextCaller == AddStar \/ LaunchShell \/ Animate

SpecCaller == Init /\ [][NextCaller]_vars

(* ---------------------------------------------------------------------- *)
(* Colour keys handed to the pools: Star.add and Spark.add with a palette   *)
(* code, the invisible key or a hex colour, and the shell of the README's   *)
(* customization example                                                    *)
(* ---------------------------------------------------------------------- *)
KeyStarColors == {"Red", INVISIBLE, UnknownColor}
KeySparkColors == {"Gold", UnknownColor}

\* the size argument of the shell functions (the app's sizes are 0 to 4)
Sizes == {0, 1, 2, 3}

\* const customShell = (size) => ({ spreadSize, starLife, starCount, color, glitter })
customShell(size) ==
  Options(200 + size * 50, 30 + size * 10, 1000 + size * 200, UnknownColor,
          "heavy", "undefined", FALSE, FALSE, FALSE)

\* Star.add(x, y, color, 0, 1, 200)
AddStarOfColor ==
  /\ adds + bursts < MaxAdds
  /\ \E color \in KeyStarColors :
       Becomes(Star_add([World(adds % RandLevels, "Star.add") EXCEPT
                           !.log.color = color],
                        BurstX, BurstY, color, 0, PS, 200, 0, 0, NoSource))
  /\ adds' = adds + 1
  /\ UNCHANGED <<page, bursts, returns, lastColor, call>>

\* Spark.add(x, y, color, 0, 1, 200)
AddSparkOfColor ==
  /\ adds + bursts < MaxAdds
  /\ \E color \in KeySparkColors :
       Becomes(Spark_add([World(adds % RandLevels, "Spark.add") EXCEPT
                            !.log.color = color],
                         BurstX, BurstY, color, 0, PS, 200, NoSource))
  /\ adds' = adds + 1
  /\ UNCHANGED <<page, bursts, returns, lastColor, call>>

\* new Shell(customShell(size)).burst(x, y)
LaunchCustom ==
  /\ adds + bursts < MaxAdds
  /\ \E size \in Sizes :
       Becomes(Shell_burst([World(bursts % RandLevels, "customShell") EXCEPT
                              !.log.starCount = Shell(customShell(size)).starCount,
                              !.log.color = Shell(customShell(size)).color],
                           Shell(customShell(size)), BurstX, BurstY))
  /\ bursts' = bursts + 1
  /\ UNCHANGED <<page, returns, adds, lastColor, call>>

\* updateFireworks(100, 1)
Advance ==
  /\ currentFrame < MaxFrames
  /\ Becomes(updateFireworks(World(currentFrame % RandLevels, "update"), 100, PS))
  /\ UNCHANGED <<page, bursts, returns, adds, lastColor, call>>

NextKeys == AddStarOfColor \/ AddSparkOfColor \/ LaunchCustom \/ Advance

SpecKeys == Init /\ [][NextKeys]_vars

(* ---------------------------------------------------------------------- *)
(* The app's frame: update(frameTime, lag) calls updateFireworks and then   *)
(* render, whose renderFireworksWithMask drains the burst flashes           *)
(* ---------------------------------------------------------------------- *)
\* a drain that stops after the first flash
renderBurstFlashesOnce(W) ==
  IF Len(W.flashActive) = 0 THEN W
  ELSE BurstFlash_returnInstance(
         [W EXCEPT !.flashActive = SubSeq(@, 1, Len(@) - 1)],
         W.flashActive[Len(W.flashActive)])

\* renderBurstFlashes(ctx)
renderBurstFlashes(W) == DrainFlashes(W)

\* render(speed): of what it does only the drain changes the core's state; it
\* is not reached when updateFireworks threw
render(W) == IF W.threw THEN W ELSE renderBurstFlashes(W)

\* the ticker's handler while the app runs: update(frameTime, lag)
Frame ==
  /\ currentFrame < MaxFrames
  /\ \E in \in CallerFrames :
       Becomes(render(updateFireworks(World(currentFrame % RandLevels, "frame"),
                                      in[1], in[2])))
  /\ UNCHANGED <<page, bursts, returns, adds, lastColor, call>>

NextFrame == LaunchShell \/ Frame

SpecFrame == Init /\ [][NextFrame]_vars

(* ---------------------------------------------------------------------- *)
(* randomColor and the shell presets, called one after another              *)
(* ---------------------------------------------------------------------- *)
\* the options a caller passes to randomColor
ColorOptionSets ==
  { ColorOptions(lw, ns, nc) :
      lw \in BOOLEAN, ns \in BOOLEAN, nc \in {"undefined", "White", "Green"} }

\* randomColor(options)
RandomColor ==
  /\ \E options \in ColorOptionSets : \E color \in randomColor(options, lastColor) :
       /\ lastColor' = color
       /\ call' = [fn |-> "randomColor", options |-> options,
                   previous |-> lastColor, done |-> TRUE, ret |-> color]
  /\ UNCHANGED <<page, star, starActive, starPool, spark, sparkActive, sparkPool,
                 flash, flashActive, flashPool, currentFrame, bursts, returns, adds,
                 last>>

\* crysanthemumShell(size), ringShell(size), willowShell(size), palmShell(size)
CallPreset ==
  /\ \E fn \in PresetNames, size \in Sizes : \E options \in Preset(fn, size, lastColor) :
       /\ lastColor' = LastDrawn(fn, options)
       /\ call' = [fn |-> fn, size |-> size, previous |-> lastColor,
                   done |-> TRUE, ret |-> options]
  /\ UNCHANGED <<page, star, starActive, starPool, spark, sparkActive, sparkPool,
                 flash, flashActive, flashPool, currentFrame, bursts, returns, adds,
                 last>>

NextRandom == RandomColor \/ CallPreset

SpecRandom == Init /\ [][NextRandom]_vars

(* ---------------------------------------------------------------------- *)
(* Shells of every combination of the effect flags, launched and animated   *)
(* ---------------------------------------------------------------------- *)
FlaggedShells ==
  { Options(300, 1, 300, "Purple", "undefined", "undefined", crossette, floral, crackle) :
      crossette \in BOOLEAN, floral \in BOOLEAN, crackle \in BOOLEAN }

\* new Shell(options).burst(x, y); call keeps the options of the launch
LaunchFlagged ==
  /\ bursts < MaxBursts
  /\ \E options \in FlaggedShells :
       /\ Becomes(Shell_burst([World(bursts % RandLevels, "burst") EXCEPT
                                 !.log.starCount = Shell(options).starCount,
                                 !.log.color = Shell(options).color],
                              Shell(options), BurstX, BurstY))
       /\ call' = [fn |-> "Shell.burst", options |-> options, done |-> TRUE]
  /\ bursts' = bursts + 1
  /\ UNCHANGED <<page, returns, adds, lastColor>>

NextEffects == LaunchFlagged \/ Animate

SpecEffects == Init /\ [][NextEffects]_vars

(* ---------------------------------------------------------------------- *)
(* A star and a spark started from the same position and velocity           *)
(* ---------------------------------------------------------------------- *)
\* <<frameTime, speed>> of the updateFireworks calls on the pair
TwinFrames == { <<0, 0>>, <<100, PS \div 2>>, <<100, PS>>, <<500, 2 * PS>> }

\* Star.add(x, y, color, angle, speed, 1000) and Spark.add of the same
\* arguments: the star is light, without spin, sparks or second colour
AddTwins ==
  /\ Len(star) = 0 /\ Len(spark) = 0
  /\ \E color \in {"Red", "White"}, angle \in {0, PI_HALF \div 2, PI_HALF},
        speed \in {PS, 3 * PS} :
       Becomes(Spark_add(Star_add([World(0, "add") EXCEPT !.log.color = color],
                                  BurstX, BurstY, color, angle, speed, 1000,
                                  0, 0, NoSource),
                         BurstX, BurstY, color, angle, speed, 1000, NoSource))
  /\ UNCHANGED <<page, bursts, returns, adds, lastColor, call>>

\* updateFireworks(frameTime, speed)
StepTwins ==
  /\ currentFrame < MaxFrames
  /\ Len(star) > 0
  /\ \E in \in TwinFrames :
       Becomes(updateFireworks(World(currentFrame % RandLevels, "update"), in[1], in[2]))
  /\ UNCHANGED <<page, bursts, returns, adds, lastColor, call>>

NextTwins == AddTwins \/ StepTwins

SpecTwins == Init /\ [][NextTwins]_vars

(* ---------------------------------------------------------------------- *)
(* The page driven by its events: DOMContentLoaded, the image loads, the    *)
(* timers, restartApp, visibilitychange, pointer taps and key presses. The  *)
(* particles a firework adds are left to the specifications of the core:    *)
(* here a createFirework counts as one more Shell.burst                     *)
(* ---------------------------------------------------------------------- *)
core == <<star, starActive, starPool, spark, sparkActive, sparkPool,
          flash, flashActive, flashPool, currentFrame, returns, adds,
          lastColor, call, last>>

\* history: the global app is seen to be initialized and running
Running(P) == P.app # 0 /\ P.apps[P.app].isInitialized /\ P.apps[P.app].isRunning
Seen(P) == IF Running(P) THEN [P EXCEPT !.awaited = FALSE] ELSE P

\* document.addEventListener('DOMContentLoaded', () => { initializeApp() })
DOMContentLoaded ==
  /\ ~page.booted
  /\ page' = Seen([initializeApp(page) EXCEPT !.booted = TRUE])
  /\ UNCHANGED <<core, bursts>>

\* the images of an app have loaded: its init() runs on, destroyed or not
AssetsLoaded ==
  /\ \E i \in DOMAIN page.apps :
       /\ page.apps[i].loading
       /\ page' = Seen(App_initialized(page, i))
  /\ UNCHANGED <<core, bursts>>

\* the timer of checkReady fires; the images of the awaited app load before
\* the last check
CheckReadyTimer ==
  /\ page.waiting
  /\ ~(page.app # 0 /\ page.apps[page.app].loading /\ page.elapsed + 1 >= WaitChecks)
  /\ page' = Seen(checkReady(page))
  /\ UNCHANGED <<core, bursts>>

\* the timer of restartApp fires: initializeApp()
RestartTimer ==
  /\ page.restartTimers > 0
  /\ page' = Seen(initializeApp([page EXCEPT !.restartTimers = @ - 1]))
  /\ UNCHANGED <<core, bursts>>

\* restartApp() called: Ctrl+R, the Retry button, window.appDebug.restart
RestartApp ==
  /\ page.booted
  /\ page.restartCalls < MaxRestarts
  /\ page' = Seen(restartApp(page))
  /\ UNCHANGED <<core, bursts>>

\* the document is hidden or shown
VisibilityChange ==
  /\ page.booted
  /\ page' = Seen(VisibilityChanged(page, ~page.hidden))
  /\ UNCHANGED <<core, bursts>>

\* positions.length of createRandomDepthFireworks: 3 to 5 points of the mask,
\* or none
TapPositions == {0, 3, 4, 5}

\* handleInteraction of app i for a tap that found n positions: nothing when
\* the app is not running, the fallback firework at once when n = 0, else one
\* timer per position
Tapped(a, n) ==
  IF ~a.pointer \/ ~a.isRunning \/ n = 0 THEN a
  ELSE [a EXCEPT !.timers = @ + n]

\* a pointerdown on the canvas: every stage made for it emits 'pointerstart'
PointerStart ==
  /\ page.taps < MaxTaps
  /\ \E i \in DOMAIN page.apps : page.apps[i].pointer
  /\ \E n \in [DOMAIN page.apps -> TapPositions] :
       /\ page' = [page EXCEPT !.taps = @ + 1,
                               !.apps = [i \in DOMAIN page.apps |-> Tapped(page.apps[i], n[i])]]
       /\ bursts' = bursts + Cardinality({i \in DOMAIN page.apps :
                                            /\ page.apps[i].pointer
                                            /\ page.apps[i].isRunning
                                            /\ n[i] = 0})
  /\ UNCHANGED core

\* a timer of createRandomDepthFireworks fires
LaunchTimer ==
  /\ \E i \in DOMAIN page.apps :
       /\ page.apps[i].timers > 0
       /\ page' = App_createFirework([page EXCEPT !.apps[i].timers = @ - 1], i)
  /\ bursts' = bursts + 1
  /\ UNCHANGED core

\* keydown ' ': a firework at once and one after 200 ms when the app runs,
\* app.resume() when it does not
SpaceKey ==
  /\ page.keyboardHandler /\ page.app # 0
  /\ page.taps < MaxTaps
  /\ IF page.apps[page.app].isRunning
       THEN /\ page' = [App_createFirework(page, page.app) EXCEPT
                          !.taps = @ + 1, !.spaceTimers = @ + 1]
            /\ bursts' = bursts + 1
       ELSE /\ page' = Seen([App_resume(page, page.app) EXCEPT !.taps = @ + 1])
            /\ UNCHANGED bursts
  /\ UNCHANGED core

\* the 200 ms timer of the space key fires: app.createFirework(...) on the
\* app of that moment, a TypeError when app is null
SpaceTimer ==
  /\ page.spaceTimers > 0
  /\ IF page.app # 0
       THEN /\ page' = App_createFirework([page EXCEPT !.spaceTimers = @ - 1], page.app)
            /\ bursts' = bursts + 1
       ELSE /\ page' = [page EXCEPT !.spaceTimers = @ - 1]
            /\ UNCHANGED bursts
  /\ UNCHANGED core

\* keydown 'p': pause or resume
PauseKey ==
  /\ page.keyboardHandler /\ page.app # 0
  /\ page' = Seen(IF page.apps[page.app].isRunning THEN App_pause(page, page.app)
                                                   ELSE App_resume(page, page.app))
  /\ UNCHANGED <<core, bursts>>

NextPage ==
  \/ DOMContentLoaded \/ AssetsLoaded \/ CheckReadyTimer \/ RestartTimer
  \/ RestartApp \/ VisibilityChange \/ PointerStart \/ LaunchTimer
  \/ SpaceKey \/ SpaceTimer \/ PauseKey

SpecPage == Init /\ [][NextPage]_vars

\* the browser runs every timer that is due and finishes every image load;
\* the user's events are under no obligation
SpecPageFair ==
  /\ Init /\ [][NextPage]_vars
  /\ WF_vars(DOMContentLoaded) /\ WF_vars(AssetsLoaded) /\ WF_vars(CheckReadyTimer)
  /\ WF_vars(RestartTimer) /\ WF_vars(LaunchTimer) /\ WF_vars(SpaceTimer)

(* ---------------------------------------------------------------------- *)
(* The frames of a started app: the ticker's update(frameTime, lag), with   *)
(* shells launched between frames                                           *)
(* ---------------------------------------------------------------------- *)
\* getActiveFireworkData(): the count of burst flashes it reads
getActiveFireworkData(W) == [burstCount |-> Len(W.flashActive)]

\* render(speed) calls renderFireworksWithMask, which draws and returns the
\* burst flashes, and then renderFaceGlow, which calls getActiveFireworkData;
\* W is the heap render starts on, W1 the heap after renderFireworksWithMask
renderFaceGlow(W, W1) == getActiveFireworkData(W1)

\* history: a burst flash was pending when update began (in flashActive) or
\* was added by updateFireworks (W)
FlashPending(W) == Len(flashActive) > 0 \/ W.log.newFlashes > 0

\* the 'ticker' listener of initStages: if (this.isRunning) update(frameTime, lag)
TickerFrame ==
  /\ currentFrame < MaxFrames
  /\ page.app # 0 /\ page.apps[page.app].ticker /\ page.apps[page.app].isRunning
  /\ \E in \in CallerFrames :
       /\ Becomes(render(updateFireworks(World(currentFrame % RandLevels, "frame"),
                                         in[1], in[2])))
       /\ page' = [page EXCEPT !.glow =
                     [pending |-> FlashPending(updateFireworks(
                                     World(currentFrame % RandLevels, "frame"), in[1], in[2])),
                      burstCount |-> renderFaceGlow(
                                       updateFireworks(
                                         World(currentFrame % RandLevels, "frame"), in[1], in[2]),
                                       render(updateFireworks(
                                         World(currentFrame % RandLevels, "frame"), in[1], in[2]))
                                     ).burstCount]]
  /\ UNCHANGED <<bursts, returns, adds, lastColor, call>>

NextGlow == LaunchShell \/ TickerFrame

\* the app has been started
InitGlow == Loaded /\ call = NoCall /\ page = RunningPage

SpecGlow == InitGlow /\ [][NextGlow]_vars

(* ---------------------------------------------------------------------- *)
(* Calls that fail on a colour that is not a key: Star.add, Spark.add, and  *)
(* the colour change of a star whose secondColor is not a key               *)
(* ---------------------------------------------------------------------- *)
\* star = Star.add(x, y, COLOR.Red, 0, 1, 200); star.secondColor = '#ff6b6b';
\* star.transitionTime = 150
AddTurningStar ==
  /\ adds + bursts < MaxAdds
  /\ Becomes(WithSecondColor(
               Star_add([World(adds % RandLevels, "Star.add") EXCEPT !.log.color = "Red"],
                        BurstX, BurstY, "Red", 0, PS, 200, 0, 0, NoSource),
               [secondColor |-> UnknownColor, transitionTime |-> 150]))
  /\ adds' = adds + 1
  /\ UNCHANGED <<page, bursts, returns, lastColor, call>>

NextFail == AddStarOfColor \/ AddSparkOfColor \/ AddTurningStar \/ Advance

SpecFail == Init /\ [][NextFail]_vars

(* ---------------------------------------------------------------------- *)
(* One shell of starCount 1, whose colour comes first or last in the order  *)
(* of the colour loop, with or without glitter of such a colour and with    *)
(* every combination of the effect flags: all particles added later stem    *)
(* from its stars                                                           *)
(* ---------------------------------------------------------------------- *)
SpawnShells ==
  { Options(300, 1, 300, color, glitter, glitterColor, crossette, floral, crackle) :
      color \in {"Red", "White"}, glitter \in {"undefined", "light"},
      glitterColor \in {"Red", "White"},
      crossette \in BOOLEAN, floral \in BOOLEAN, crackle \in BOOLEAN }

\* new Shell(options).burst(x, y), once
LaunchOne ==
  /\ Len(star) = 0
  /\ \E options \in SpawnShells :
       /\ Becomes(Shell_burst([World(0, "burst") EXCEPT
                                 !.log.starCount = Shell(options).starCount,
                                 !.log.color = Shell(options).color],
                              Shell(options), BurstX, BurstY))
       /\ call' = [fn |-> "Shell.burst", options |-> options, done |-> TRUE]
  /\ bursts' = bursts + 1
  /\ UNCHANGED <<page, returns, adds, lastColor>>

NextSpawn == LaunchOne \/ Animate

SpecSpawn == Init /\ [][NextSpawn]_vars

(* ---------------------------------------------------------------------- *)
(* The ticker keeps calling updateFireworks with frameTime > 0 while shells *)
(* of every combination of the effect flags are launched                    *)
(* ---------------------------------------------------------------------- *)
\* some Star or Spark list is not empty
Burning == \E c \in ColorKeys : Len(starActive[c]) > 0 \/ Len(sparkActive[c]) > 0

\* <<frameTime, speed>> of the ticker's calls
QuietFrames == { <<250, PS>>, <<400, PS>> }

\* the shells are launched during the first MaxFrames calls, in whatever state
\* the lists are then
LaunchEarly == currentFrame <= MaxFrames /\ LaunchFlagged

\* updateFireworks(frameTime, speed), frameTime > 0; a call that finds every
\* list empty changes nothing but the frame counter and is left out
KeepUpdating ==
  /\ Burning
  /\ currentFrame < MaxTicks
  /\ \E in \in QuietFrames :
       Becomes(updateFireworks(World(currentFrame % RandLevels, "update"), in[1], in[2]))
  /\ UNCHANGED <<page, bursts, returns, adds, lastColor, call>>

NextQuiet == LaunchEarly \/ KeepUpdating

\* the steps of KeepUpdating, told by the frame counter: updateFireworks
\* increments it and no other step changes it
Ticked == Burning /\ currentFrame < MaxTicks /\ currentFrame' = currentFrame + 1

\* the ticker fires as long as the app runs: while a list is not empty the
\* frame counter is eventually incremented
SpecQuiet == Init /\ [][NextQuiet]_vars /\ WF_currentFrame(Ticked)

(* ---------------------------------------------------------------------- *)
(* Properties                                                               *)
(* ---------------------------------------------------------------------- *)
RECURSIVE Concat(_, _)
Concat(active, c) ==
  IF c > Len(COLOR_CODES_W_INVIS) THEN <<>>
  ELSE active[COLOR_CODES_W_INVIS[c]] \o Concat(active, c + 1)

\* every reference to an instance held by the active lists / by them and the pool
ActiveRefs(active) == Concat(active, 1)
Refs(active, pool) == pool \o Concat(active, 1)
Occurrences(s, id) == Cardinality({k \in 1..Len(s) : s[k] = id})

\* C1: for each of the Star, Spark and BurstFlash pools, the number of
\* instances in the active lists plus the number in the free-list equals the
\* number of instances ever constructed, also after returnInstance calls
\* made directly by a caller.
C1_PoolConservation ==
  /\ Len(ActiveRefs(starActive)) + Len(starPool) = Len(star)
  /\ Len(ActiveRefs(sparkActive)) + Len(sparkPool) = Len(spark)
  /\ Len(flashActive) + Len(flashPool) = Len(flash)

\* a star or spark of the state before a step, in the state after it
SameStar(id) == star'[id].gen = star[id].gen
SameSpark(id) == spark'[id].gen = spark[id].gen

\* C2: every updateFireworks call with frameTime > 0 strictly decreases the
\* life of every Star and Spark that was active before it, and a particle
\* whose life is <= 0 after the call is in no active list after it (an
\* instance that is active again after the call is another particle: its
\* former life ended in this call and Star.add / Spark.add reused it).
C2_LifeBurnsDown ==
  [][ (last'.op = "update" /\ last'.frameTime > 0) =>
        /\ \A id \in Range(ActiveRefs(starActive)) :
             IF SameStar(id)
               THEN /\ star'[id].life < star[id].life
                    /\ star'[id].life <= 0 => id \notin Range(ActiveRefs(starActive'))
               ELSE star[id].life - last'.frameTime <= 0
        /\ \A id \in Range(ActiveRefs(sparkActive)) :
             IF SameSpark(id)
               THEN /\ spark'[id].life < spark[id].life
                    /\ spark'[id].life <= 0 => id \notin Range(ActiveRefs(sparkActive'))
               ELSE spark[id].life - last'.frameTime <= 0 ]_vars

\* a call with frameTime > 0 after which a spark is alive with less life
\* than it was born with, and a star and a spark have burnt out and are pooled
C2_Witness ==
  /\ last.op = "update" /\ last.frameTime > 0
  /\ \E id \in Range(ActiveRefs(sparkActive)) :
       0 < spark[id].life /\ spark[id].life < spark[id].fullLife
  /\ \E id \in Range(starPool) : star[id].life <= 0
  /\ \E id \in Range(sparkPool) : spark[id].life <= 0

\* the number of directions createBurst(count, emit) emits over the full arc
BurstSize(count) ==
  CASE count = 1 -> 2 [] count = 2 -> 4 [] count = 10 -> 14 [] OTHER -> 0

\* C3 (as the code has it): Shell.burst adds one Star per direction that
\* createBurst emits, all to the active list of the shell's colour, and that
\* number is not starCount: 14 Stars for starCount 10 (2 for 1, 4 for 2).
C3_BurstAddsRings ==
  last.op = "burst" =>
    /\ Len(last.newStars) = BurstSize(last.starCount)
    /\ Len(last.newStars) > last.starCount
    /\ \A k \in 1..Len(last.newStars) :
         /\ Occurrences(starActive[last.color], last.newStars[k]) = 1
         /\ star[last.newStars[k]].color = last.color
    /\ last.newFlashes = 1

\* the burst of the shell with spreadSize 400, starCount 10, colour Red
C3_Witness ==
  /\ last.op = "burst" /\ last.starCount = 10 /\ last.color = "Red"
  /\ Len(last.newStars) = 14
  /\ Len(starActive["Red"]) = 14

\* C3: Shell.burst on a Shell built with an explicit starCount N adds exactly
\* N Stars to the active list of the shell's colour.
C3_BurstAddsStarCount ==
  last.op = "burst" =>
    /\ Len(last.newStars) = last.starCount
    /\ \A k \in 1..Len(last.newStars) :
         Occurrences(starActive[last.color], last.newStars[k]) = 1

\* what a call with frameTime 0 leaves alone: lists, pools, life and colour
ZeroStepKeeps ==
  /\ starActive' = starActive /\ starPool' = starPool
  /\ sparkActive' = sparkActive /\ sparkPool' = sparkPool
  /\ \A id \in Range(ActiveRefs(starActive)) :
       star'[id].life = star[id].life /\ star'[id].color = star[id].color
  /\ \A id \in Range(ActiveRefs(sparkActive)) :
       spark'[id].life = spark[id].life /\ spark'[id].color = spark[id].color

\* the move of a call with speed factor speed: velocity times speed
ZeroStepMoves(speed) ==
  /\ \A id \in Range(ActiveRefs(starActive)) :
       /\ star'[id].x = star[id].x + (star[id].speedX * speed) \div PS
       /\ star'[id].y = star[id].y + (star[id].speedY * speed) \div PS
  /\ \A id \in Range(ActiveRefs(sparkActive)) :
       /\ spark'[id].x = spark[id].x + (spark[id].speedX * speed) \div PS
       /\ spark'[id].y = spark[id].y + (spark[id].speedY * speed) \div PS

ZeroStepStays ==
  /\ \A id \in Range(ActiveRefs(starActive)) :
       star'[id].x = star[id].x /\ star'[id].y = star[id].y
  /\ \A id \in Range(ActiveRefs(sparkActive)) :
       spark'[id].x = spark[id].x /\ spark'[id].y = spark[id].y

ThreePointCall ==
  /\ call.fn = "interpolateColorEvolution" /\ call.done
  /\ call.colorEvolution.midColor.kind # "null"

\* C5: on a 3-point schedule interpolateColorEvolution returns the colour of
\* startColor at lifeRatio 1 and the colour of endColor at lifeRatio 0.
C5_EvolutionEndpoints ==
  ThreePointCall =>
    /\ call.lifeRatio = LifeRatioSteps =>
         parseRgbColor(call.ret) = parseRgbColor(call.colorEvolution.startColor)
    /\ call.lifeRatio = 0 =>
         parseRgbColor(call.ret) = parseRgbColor(call.colorEvolution.endColor)

\* the star of the scenario and the sparks of the last call
ScenarioStar == star[1].sparkFreq = 100 /\ star[1].fullLife = 1000
SparksOfCall == Len(last.newSparks)

\* the Sparks added per call, by the life the star has left after the call
SparksByLife == <<0, 0, 1, 0, 1, 1, 0, 1, 2>>

\* C6 (as the code has it): the star with sparkFreq 100 and fullLife 1000
\* under updateFireworks(100, 1) adds 2 Sparks in its first call, at most 1
\* in every later call and none in its last three calls (2, 1, 0, 1, 1, 0,
\* 1, 0, 0, 0 call by call): the rate falls with age.
C6_SparkRateFalls ==
  (last.op = "update" /\ ScenarioStar) =>
    /\ star[1].life = 900 => SparksOfCall = 2
    /\ star[1].life < 900 => SparksOfCall <= 1
    /\ star[1].life <= 200 => SparksOfCall = 0
    /\ star[1].life > 0 => SparksOfCall = SparksByLife[star[1].life \div 100]

\* the star's ninth call: 100 ms of life left, no spark added
C6_Witness ==
  /\ last.op = "update" /\ ScenarioStar
  /\ star[1].life = 100 /\ Len(starActive[star[1].color]) = 1
  /\ SparksOfCall = 0 /\ Len(spark) > 4

\* C6: the number of Sparks the star adds per call never decreases from one
\* call to the next.
C6_SparkRateGrows ==
  [][ (last.op = "update" /\ last'.op = "update" /\ ScenarioStar) =>
        Len(last'.newSparks) >= Len(last.newSparks) ]_vars

\* C7: when a Star whose onDeath is the crackle effect dies in
\* updateFireworks, its handler adds exactly 16 Sparks, each with colour
\* Gold and in the Gold active list, whatever the colour of the star.
C7_CrackleSparks ==
  last.op = "update" =>
    \A k \in 1..Len(last.deaths) :
      last.deaths[k].onDeath = "crackle" =>
        /\ Len(last.deaths[k].sparks) = 16
        /\ Cardinality(Range(last.deaths[k].sparks)) = 16
        /\ last.deaths[k].sparkColors = {"Gold"}
        /\ last.deaths[k].sparkLists = {"Gold"}
        /\ Len(last.deaths[k].stars) = 0

\* a blue crackle star has died in the last call
C7_Witness ==
  /\ last.op = "update"
  /\ \E k \in 1..Len(last.deaths) :
       /\ last.deaths[k].onDeath = "crackle" /\ last.deaths[k].color = "Blue"
       /\ Len(last.deaths[k].sparks) = 16

\* a finished call generateColorVariation(c, 0) on a palette colour c
ZeroVariationCall ==
  /\ call.fn = "generateColorVariation" /\ call.done
  /\ call.variation = 0 /\ call.baseColor \in DOMAIN COLOR_TUPLES

\* C8 (as the code has it): generateColorVariation(c, 0) returns the RGB
\* components of c for Red, Green, Blue, Purple and Gold, and rgb(230, 230,
\* 230) for White, whose lightness it clamps to 0.9.
C8_ZeroVariationButWhite ==
  ZeroVariationCall =>
    IF call.baseColor = "White"
      THEN call.ret = RgbString(230, 230, 230)
      ELSE call.ret = RgbString(COLOR_TUPLES[call.baseColor].r,
                                COLOR_TUPLES[call.baseColor].g,
                                COLOR_TUPLES[call.baseColor].b)

\* generateColorVariation(White, 0) has returned
C8_Witness ==
  ZeroVariationCall /\ call.baseColor = "White" /\ call.ret.r = 230

\* C8: generateColorVariation(c, 0) returns the RGB components of c for
\* every palette colour c.
C8_ZeroVariationIdentity ==
  ZeroVariationCall =>
    call.ret = RgbString(COLOR_TUPLES[call.baseColor].r,
                         COLOR_TUPLES[call.baseColor].g,
                         COLOR_TUPLES[call.baseColor].b)

\* C9: the onDeath handler of a Star runs exactly once, in the
\* updateFireworks call in which the star's life drops to <= 0: an active
\* star's handler has not run, a pooled star's handler has run once if it
\* was given one, handlers run in updateFireworks only, and a pooled or
\* reused instance carries no handler of an earlier life.
C9_OnDeathOnce ==
  /\ \A id \in 1..Len(star) : star[id].deathCalls <= 1
  /\ \A id \in Range(ActiveRefs(starActive)) :
       /\ star[id].deathCalls = 0
       /\ Truthy(star[id].onDeath) => star[id].onDeath = star[id].effect
  /\ \A id \in Range(starPool) :
       /\ star[id].life <= 0
       /\ ~Truthy(star[id].onDeath)
       /\ star[id].deathCalls = (IF Truthy(star[id].effect) THEN 1 ELSE 0)
  /\ last.op # "update" => Len(last.deaths) = 0
  /\ \A k \in 1..Len(last.deaths) : Truthy(last.deaths[k].onDeath)

\* a star whose handler has run is pooled, and an instance that had a
\* handler in an earlier life is active again without one
C9_Witness ==
  /\ \E id \in Range(starPool) : star[id].deathCalls = 1
  /\ \E id \in Range(ActiveRefs(starActive)) :
       /\ star[id].gen > 1 /\ ~Truthy(star[id].onDeath)
       /\ \E k \in 1..Len(last.deaths) : last.deaths[k].id = id

\* C10: after any sequence of Shell.burst and updateFireworks calls every
\* Star and Spark instance is held exactly once: in the free-list or in one
\* active list, never in both, in two lists or twice in a list.
C10_OneHome ==
  /\ \A id \in 1..Len(star) : Occurrences(Refs(starActive, starPool), id) = 1
  /\ \A id \in 1..Len(spark) : Occurrences(Refs(sparkActive, sparkPool), id) = 1

\* a call in which a dying star's handler added stars: stars are pooled and
\* active, sparks are pooled
C10_Witness ==
  /\ last.op = "update"
  /\ \E k \in 1..Len(last.deaths) : Len(last.deaths[k].stars) > 0
  /\ Len(starPool) > 0 /\ Len(ActiveRefs(starActive)) > 0
  /\ Len(sparkPool) > 0

\* C11: between updateFireworks calls every Star in Star.active[k] has
\* color = k and every Spark in Spark.active[k] has color = k, also after a
\* secondColor transition has changed a star's colour.
C11_ActiveListKeySync ==
  \A k \in ColorKeys :
    /\ \A n \in 1..Len(starActive[k]) : star[starActive[k][n]].color = k
    /\ \A n \in 1..Len(sparkActive[k]) : spark[sparkActive[k][n]].color = k

\* a star whose colour has changed is in a list, next to an active spark
C11_Witness ==
  /\ \E k \in ColorKeys : \E n \in 1..Len(starActive[k]) :
       star[starActive[k][n]].colorChanged
  /\ Len(ActiveRefs(sparkActive)) > 0

\* the fields of a star that Star.add got from nothing but its arguments and
\* fixed defaults: as on an instance made by _new, for the sources of the
\* model, which have no depth layer
ResetStar(id) ==
  /\ star[id].updateFrame = NoNumber
  /\ star[id].strobeFreq = NoNumber
  /\ ~star[id].colorChanged
  /\ star[id].effect = "undefined" => ~Truthy(star[id].onDeath)
  /\ last.op = "burst" => /\ ~Truthy(star[id].secondColor)
                          /\ star[id].transitionTime \in {NoNumber, 0}
  /\ star[id].depthLayer = "undefined"
  /\ star[id].intensityMultiplier = NoNumber

ResetSpark(id) ==
  /\ spark[id].depthLayer = "undefined"
  /\ spark[id].intensityMultiplier = NoNumber

\* C12: after a Star.add by a caller or the adds of a Shell.burst, no field of
\* a star returned by add holds a value written during the instance's previous
\* life: strobeFreq, updateFrame, secondColor, transitionTime, colorChanged,
\* onDeath, depthLayer and intensityMultiplier are as the arguments of the add
\* call and the fixed defaults make them; the same for the sparks added.
C12_AddResetsFields ==
  last.op \in {"Star.add", "burst"} =>
    /\ \A n \in 1..Len(last.newStars) : ResetStar(last.newStars[n])
    /\ \A n \in 1..Len(last.newSparks) : ResetSpark(last.newSparks[n])

\* C13: the key set of Star.active and of Spark.active is always the six
\* palette codes plus INVISIBLE, and a Star.add or Spark.add with a colour
\* that is none of them fails with an error and adds nothing to a list.
C13_UnknownColourRejected ==
  /\ DOMAIN starActive = ColorKeys
  /\ DOMAIN sparkActive = ColorKeys
  /\ (last.op \in {"Star.add", "Spark.add"} /\ last.color \notin ColorKeys)
       => /\ last.threw
          /\ last.newStars = <<>>
          /\ last.newSparks = <<>>

\* a Star.add with the hex colour has failed while a star is active
C13_Witness ==
  /\ last.op = "Star.add" /\ last.color = UnknownColor /\ last.threw
  /\ Len(ActiveRefs(starActive)) > 0


\* C14: no instance appears twice in the free-list of Star or of Spark, also
\* after Star.returnInstance and Spark.returnInstance calls made directly by
\* a caller on an instance that is in the free-list already.
C14_NoDoubleFree ==
  /\ \A id \in 1..Len(star) : Occurrences(starPool, id) <= 1
  /\ \A id \in 1..Len(spark) : Occurrences(sparkPool, id) <= 1

\* C15: new Shell(customShell(size)).burst(x, y) completes without error and
\* its stars are active afterwards.
C15_CustomShellLaunches ==
  last.op = "customShell" =>
    /\ ~last.threw
    /\ Len(last.newStars) > 0
    /\ \A n \in 1..Len(last.newStars) :
         Occurrences(ActiveRefs(starActive), last.newStars[n]) = 1

\* C16: the colour randomColor returns differs from the colour the previous
\* randomColor call returned when notSame is set, and differs from notColor
\* when notColor is set, in every combination of limitWhite, notSame and
\* notColor.
C16_ExclusionsHonoured ==
  call.fn = "randomColor" =>
    /\ call.options.notSame => call.ret # call.previous
    /\ Truthy(call.options.notColor) => call.ret # call.options.notColor

\* the options of a preset without the colours it draws
WithoutDrawn(fn, options) ==
  [options EXCEPT !.color = "undefined",
                  !.glitterColor = IF fn = "palmShell" THEN "undefined" ELSE @]

\* a call of a preset that follows a call of the same preset with the same size
SamePresetCall ==
  /\ call'.fn \in PresetNames
  /\ call.fn = call'.fn
  /\ call.size = call'.size

\* C18 (as the code has it): two calls of a preset with the same size return
\* the same spreadSize, starLife, starCount and glitter, and the same
\* glitterColor except for palmShell; the color (and the glitterColor of
\* palmShell) is drawn by randomColor in every call, and a call changes no
\* module state but lastColor, which becomes the palette colour drawn last.
C18_PresetsFixedButColour ==
  [][call'.fn \in PresetNames =>
       /\ SamePresetCall =>
            WithoutDrawn(call'.fn, call'.ret) = WithoutDrawn(call.fn, call.ret)
       /\ lastColor' \in Range(COLOR_CODES)
       /\ lastColor' = LastDrawn(call'.fn, call'.ret)
       /\ UNCHANGED <<star, starActive, starPool, spark, sparkActive, sparkPool,
                      flash, flashActive, flashPool, currentFrame>>]_vars

\* a preset has returned a colour other than the one lastColor held before
C18_Witness ==
  /\ call.fn \in PresetNames
  /\ call.previous # "undefined"
  /\ call.ret.color # call.previous
  /\ lastColor # call.previous

\* C18 (as stated): two calls of a preset with the same size return the same
\* options, and a call leaves lastColor as it was.
C18_PresetsPure ==
  [][call'.fn \in PresetNames =>
       /\ SamePresetCall => call'.ret = call.ret
       /\ lastColor' = lastColor]_vars

\* C17: after every render pass BurstFlash.active is empty and every
\* BurstFlash made so far, those added by Shell.burst before the pass and
\* those added by the floral effect in the pass included, is in the free-list
\* exactly once; until the pass a flash that was added stays in
\* BurstFlash.active.
C17_FlashLivesOnePass ==
  [][/\ last'.op = "frame" =>
          /\ flashActive' = <<>>
          /\ \A id \in 1..Len(flash') : Occurrences(flashPool', id) = 1
     /\ last'.op # "frame" =>
          /\ flashPool' = flashPool \/ Len(flashPool') < Len(flashPool)
          /\ \A n \in 1..Len(flashActive) : Occurrences(flashActive', flashActive[n]) = 1]_vars

\* a pass has drained a flash of a burst and a flash of the floral effect
C17_Witness ==
  /\ last.op = "frame"
  /\ last.newFlashes > 0
  /\ Len(flashPool) > 1
  /\ flashActive = <<>>

\* the stars in the active lists before a step
ActiveBefore == ActiveRefs(starActive)

\* star id went through the star loop's body once in the step, and its life
\* went down by the step's frameTime
ProcessedOnce(id) ==
  /\ Occurrences(last'.processed, id) = 1
  /\ SameStar(id) => star'[id].life = star[id].life - last'.frameTime
  /\ ~SameStar(id) => star[id].life - last'.frameTime <= 0

\* C19: in an updateFireworks call every Star that was active when the call
\* began is processed exactly once and its life goes down by frameTime once,
\* also when stars move to the list of another colour, earlier or later in the
\* colour order or their own, or die and spawn children during the call.
C19_EachStarProcessedOnce ==
  [][last'.op = "update" =>
       \A n \in 1..Len(ActiveBefore) : ProcessedOnce(ActiveBefore[n])]_vars

\* a call in which a star died and spawned children and another star moved to
\* a list later in the colour order
C19_Witness ==
  /\ last.op = "update"
  /\ \E n \in 1..Len(last.deaths) : Len(last.deaths[n].stars) > 0
  /\ \E n \in 1..Len(starActive["Gold"]) :
       /\ star[starActive["Gold"][n]].colorChanged
       /\ star[starActive["Gold"][n]].updateFrame = currentFrame

\* the keys of the active lists that hold star id
ListsOf(active, id) ==
  {k \in DOMAIN active : \E n \in 1..Len(active[k]) : active[k][n] = id}

\* the step leaves star id alive with a colour change that is due: a second
\* colour, no change made yet, and a life below the transition time
ChangeDue(id) ==
  /\ Truthy(star[id].secondColor)
  /\ ~star[id].colorChanged
  /\ star'[id].life < star[id].transitionTime

\* star id is moved by the step if and only if its change is due, and then to
\* the list of its second colour
MovedWhenDue(id) ==
  IF ChangeDue(id)
    THEN /\ ListsOf(starActive', id) = {star[id].secondColor}
         /\ star'[id].color = star[id].secondColor
         /\ star'[id].colorChanged
    ELSE /\ ListsOf(starActive', id) = ListsOf(starActive, id)
         /\ star'[id].colorChanged = star[id].colorChanged

\* C20: a Star with secondColor set is moved to Star.active[secondColor] by
\* the first updateFireworks call that leaves its life > 0 and below
\* transitionTime, and no later call and no other operation moves it between
\* the active lists again as long as it lives.
C20_TransitionOnce ==
  [][\A n \in 1..Len(ActiveBefore) :
       LET id == ActiveBefore[n]
       IN IF last'.op = "update"
            THEN (SameStar(id) /\ star'[id].life > 0) => MovedWhenDue(id)
            ELSE ListsOf(starActive', id) = ListsOf(starActive, id)]_vars

\* a star that changed its colour in one call has lived through a later call
C20_Witness ==
  /\ last.op = "update"
  /\ \E n \in 1..Len(starActive["Red"]) :
       LET s == star[starActive["Red"][n]]
       IN /\ s.colorChanged
          /\ s.transitionTime = 950
          /\ s.updateFrame = currentFrame
          /\ s.life > 0 /\ s.life <= 800

\* the callback the flags of a shell leave on its stars, as the claim has it
LastFlag(options) ==
  IF options.crackle THEN "crackle"
  ELSE IF options.floral THEN "floral"
  ELSE IF options.crossette THEN "crossette"
  ELSE "unset"

\* the callback on a star; null and undefined are both no callback
CallbackOf(s) == IF Truthy(s.onDeath) THEN s.onDeath ELSE "unset"

\* C21: every star spawned by Shell.burst has the onDeath callback of the
\* last flag set in the order crossette, floral, crackle (crackle if crackle
\* is set, else floral if floral is set, else crossette), and none when no
\* flag is set.
C21_LastFlagWins ==
  (last.op = "burst" /\ call.fn = "Shell.burst") =>
    /\ Len(last.newStars) > 0
    /\ \A n \in 1..Len(last.newStars) :
         CallbackOf(star[last.newStars[n]]) = LastFlag(call.options)

\* a shell with crossette and floral set and crackle not set was launched
C21_Witness ==
  /\ last.op = "burst" /\ call.fn = "Shell.burst"
  /\ call.options.crossette /\ call.options.floral /\ ~call.options.crackle
  /\ \E n \in 1..Len(last.newStars) : star[last.newStars[n]].onDeath = "floral"

\* the star and the spark of the pair are both in an active list
TwinsActive(stars, sparks) ==
  /\ Len(ActiveRefs(stars)) = 1
  /\ Len(ActiveRefs(sparks)) = 1

\* particle q is particle p after one step of the integrator's rule with the
\* given drag factor, for the frameTime and speed of the step
SteppedWithDrag(p, q, drag) ==
  /\ q.x = p.x + (p.speedX * last'.speed) \div PS
  /\ q.y = p.y + (p.speedY * last'.speed) \div PS
  /\ q.speedX = (p.speedX * drag) \div PS
  /\ q.speedY = (p.speedY * drag) \div PS + GAcc(last'.frameTime)

\* C22 (as the code has it): a Spark and a light Star without spin are
\* stepped by the same rule and the same gravity term, the Spark with the
\* drag factor of Spark.airDrag and the Star with that of Star.airDrag.
C22_SameRuleOwnDrag ==
  [][(last'.op = "update" /\ TwinsActive(starActive, sparkActive)
      /\ TwinsActive(starActive', sparkActive')) =>
       /\ SteppedWithDrag(star[1], star'[1], Drag(Star_airDrag, last'.speed))
       /\ SteppedWithDrag(spark[1], spark'[1], Drag(Spark_airDrag, last'.speed))]_vars

\* the pair has been stepped and its velocities have come apart
C22_Witness ==
  /\ last.op = "update"
  /\ TwinsActive(starActive, sparkActive)
  /\ star[1].x = spark[1].x
  /\ star[1].speedY # spark[1].speedY

\* C22 (as stated): the Spark and the Star of the pair have the same position
\* and velocity after every call.
C22_SparkAsStar ==
  TwinsActive(starActive, sparkActive) =>
    /\ star[1].x = spark[1].x /\ star[1].y = spark[1].y
    /\ star[1].speedX = spark[1].speedX /\ star[1].speedY = spark[1].speedY

\* C23: when no further shell is launched and updateFireworks keeps being
\* called with frameTime > 0, every Star and Spark list is empty from some
\* call on (within the MaxTicks calls followed), whatever effects the stars
\* of the shells carry.
C23_Quiescence == <>[](~Burning)

\* every list is empty again after the star of a shell died, spawned stars,
\* and these died too
C23_Witness ==
  /\ ~Burning
  /\ last.op = "update"
  /\ Len(starPool) > 4

\* the place of a colour in the order of the colour loop
ColorIndex(color) == CHOOSE c \in 1..Len(COLOR_CODES_W_INVIS) : COLOR_CODES_W_INVIS[c] = color

\* a particle as add left it
Unadvanced(p) == p.life = p.fullLife /\ p.x = p.prevX /\ p.y = p.prevY

\* a spark that went through the spark loop once since it was added
AdvancedOnce(p) == p.life = p.fullLife - last.frameTime

\* the sparks added by a call come from the stars of the shell: their list is
\* visited before that of a spark of a colour that is not earlier in the order
VisitedAfterParent(p) == ColorIndex(p.color) >= ColorIndex(call.options.color)

\* C25 as the code has it: a Star added during an updateFireworks call is not
\* advanced in that call; a Spark added during the call is not advanced when
\* its colour comes before the colour of the star that spawned it in the
\* order of the colour loop, and is advanced once (its life lowered by
\* frameTime) in that same call otherwise.
C25_SpawnedStarsRest ==
  (last.op = "update" /\ ~last.threw) =>
     /\ \A k \in 1..Len(last.newStars) : Unadvanced(star[last.newStars[k]])
     /\ \A k \in 1..Len(last.newSparks) :
          IF VisitedAfterParent(spark[last.newSparks[k]])
            THEN AdvancedOnce(spark[last.newSparks[k]])
            ELSE Unadvanced(spark[last.newSparks[k]])

\* the white stars of a crackle shell died and their gold sparks rest
C25_Witness ==
  /\ last.op = "update" /\ ~last.threw
  /\ last.frameTime > 0
  /\ Len(last.deaths) > 0
  /\ Len(last.newSparks) >= 16
  /\ call.options.color = "White"
  /\ \A k \in 1..Len(last.newSparks) : Unadvanced(spark[last.newSparks[k]])

\* C25 as stated: no particle added during an updateFireworks call is
\* advanced in that call, whatever the colours.
C25_SpawnedParticlesRest ==
  (last.op = "update" /\ ~last.threw) =>
     /\ \A k \in 1..Len(last.newStars) : Unadvanced(star[last.newStars[k]])
     /\ \A k \in 1..Len(last.newSparks) : Unadvanced(spark[last.newSparks[k]])

\* the instances held by the free-list or an active list
HeldStars == Range(Refs(starActive, starPool))
HeldSparks == Range(Refs(sparkActive, sparkPool))

\* C26: an operation that fails on an unknown colour key (Star.add, Spark.add,
\* or a colour transition in updateFireworks) loses no instance: every
\* instance that was in the free-list or in an active list before the
\* operation is in one of them after it.
C26_FailureKeepsInstances ==
  [][ (last'.threw /\ last'.op \in {"Star.add", "Spark.add", "update"}) =>
        /\ HeldStars \subseteq HeldStars'
        /\ HeldSparks \subseteq HeldSparks' ]_vars

\* a star as Shell.burst leaves it for a shell of the options: Star.add sets
\* sparkFreq to 0 and the glitter lookup follows
StarOfShell(options) == BurstStar([Star_new EXCEPT !.sparkFreq = 0], Shell(options))

\* C27: the glitter name in the options a shell preset returns is one that
\* Shell.burst recognises, so the stars of a Shell built from the preset have
\* sparkFreq > 0.
C27_PresetsGlitter ==
  call.fn \in PresetNames =>
    /\ call.ret.glitter \in {"light", "medium", "heavy"}
    /\ StarOfShell(call.ret).sparkFreq > 0

\* C24: createFirework (and so Shell.burst) is never executed at a moment
\* when the isRunning of its app is false, also not by the timers scheduled
\* before pause() or destroy().
C24_NoFireworkWhileStopped == ~page.launchedStopped

\* C29: an app on which destroy() has been called has isRunning false in
\* every later state.
C29_DestroyedStaysStopped ==
  \A i \in DOMAIN page.apps : page.apps[i].destroyed => ~page.apps[i].isRunning

\* the global app is a PupilFireworksApp that is initialized and running
AppRunning == Running(page)

\* C30: every call of restartApp is eventually followed by a state in which
\* the global app is initialized and running, the image loads succeeding
\* before the timeout.
C30_RestartLeadsToRunning == page.awaited ~> AppRunning

\* C28: in every frame in which a BurstFlash is pending when the app's update
\* begins or is added by the integrator during it, the face-glow computation
\* of that frame observes burstCount >= 1.
C28_GlowSeesBursts ==
  (last.op = "frame" /\ page.glow.pending) => page.glow.burstCount >= 1

====
